---------------------------- MODULE Spec2Model ----------------------------
(***************************************************************************)
(* State-machine model of the s3s-rados gateway: the S3 handlers of        *)
(* src/src/service.rs (RadosStore), the metadata operations of             *)
(* src/src/pg_database.rs (PostgresDatabase) and the backing-store client  *)
(* of src/src/s3_client.rs (S3Client).                                     *)
(*                                                                         *)
(* Every handler is an async fn; each `.await` is a suspension point, so   *)
(* a handler is one action per await, the synchronous code that follows    *)
(* the await being part of that action.  A request may be dropped          *)
(* (cancelled) at any suspension point.  Every database round trip and     *)
(* every backing-store call may fail.                                      *)
(***************************************************************************)
EXTENDS Integers, Sequences, FiniteSets, TLC

(***************************************************************************)
(* Bounds of the model.                                                    *)
(***************************************************************************)
MaxBlobs == 2   \* UUIDs that Uuid::new_v4 may hand out in one run
MaxTime == 1    \* largest value of the database clock

\* two requests are in flight at a time; a finished one makes room for the next
Reqs == {"r1", "r2"}
Uuids == 1..MaxBlobs
NoUuid == 0
None == "none"

BucketNames == {"b1", "nob"}
\* the names a CreateBucket request asks for besides the one that is live
NewBucketNames == {"a-b", "a.b"}
Keys == {"k1"}
\* payloads are byte strings
Bodies == {<<"a">>, <<"b", "b">>}
NoBody == <<>>
StorageClasses == {None, "STANDARD", "GLACIER"}
PartNumbers == {1, 2}
\* the upload ids the backing store hands out, one per object key
UploadIdOf(key) == <<"upload", key>>
UploadIds == {UploadIdOf(u) : u \in Uuids}

VARIABLES
    buckets,      \* table buckets: rows [name, owner, location]
    buckets_gc,   \* table buckets_gc: rows [id, location] queued for the GC worker
    buckets_temp, \* table buckets_temp: rows [name, location]
    partitions,   \* partitions of table objects: rows [table, bucket]
    temp_blobs,   \* table temp_blobs: rows [id, location]
    blobs,        \* table blobs: rows [id, placement, etag, size]
    objects,      \* table objects: rows [bucket, oid, last_modified, blob]
    blobs_gc,     \* table blobs_gc: blob ids queued for the GC worker
    multiparts,   \* table active_multipart_uploads
    backing,      \* backing store: objects [loc, key, body, etag]
    backing_mp,   \* backing store: open multipart uploads [loc, key, upload_id, parts]
    backing_buckets, \* backing store: names of the buckets it holds
    now,          \* database clock (CURRENT_TIMESTAMP)
    next_uuid,    \* next value Uuid::new_v4 returns
    pc,           \* per request: the await it is suspended at
    req,          \* per request: the S3Request (operation, input, credentials)
    new_blob,     \* per request: the blob id it works with
    placement,    \* per request: the BlobLocation the handler holds
    fetched,      \* per request: the (Object, Blob) pair read from the database
    upload,       \* per request: the MultipartUpload row read from the database
    tx,           \* per request: the open database transaction
    attempts,     \* per request: executions of the commit_object closure
    result,       \* per request: what the handler returned
    response,     \* per request: the output of a successful handler
    calls         \* per request: state-changing calls and backing calls made

db == <<buckets, buckets_gc, buckets_temp, partitions, temp_blobs, blobs,
       objects, blobs_gc, multiparts>>
store == <<backing, backing_mp, backing_buckets>>
locals == <<new_blob, placement, fetched, upload>>
vars == <<buckets, buckets_gc, buckets_temp, partitions, temp_blobs, blobs, objects,
          blobs_gc, multiparts, backing, backing_mp, backing_buckets, now,
          next_uuid, pc, req, new_blob, placement, fetched,
          upload, tx, attempts, result, response, calls>>

-----------------------------------------------------------------------------
(***************************************************************************)
(* Values                                                                  *)
(***************************************************************************)
\* the BlobLocation of the bucket that exists from the start
Loc1 == [region |-> "default", backend |-> <<"b1", NoUuid>>]

NoTx == [open |-> FALSE, ts |-> 0, blobs |-> {}, objects |-> {}, del_temp |-> {},
         buckets |-> {}, del_buckets_temp |-> {}, partitions |-> {}]

IdleReq == [op |-> None, bucket |-> None, key |-> None, creds |-> FALSE,
            storage_class |-> None, body |-> NoBody, has_len |-> FALSE,
            upload_id |-> None, part |-> 0]

\* the etag the backing store computes for a payload
UpstreamEtag(body) == <<"md5", body>>

\* content-length of a payload
ContentLength(body) == Len(body)

-----------------------------------------------------------------------------
(***************************************************************************)
(* PostgresDatabase: statements.  A statement run on the pool (db_conn)    *)
(* commits by itself; a statement run inside a transaction is buffered in  *)
(* tx[r] and reaches the tables only when the transaction commits; a       *)
(* transaction that is dropped without commit is rolled back.              *)
(***************************************************************************)
\* SELECT ... FROM buckets WHERE name = $1
get_bucket(name) == {b \in buckets : b.name = name}

\* faulty variant: the temp row is not written
create_blob_temp_skipped(id, location) == temp_blobs

\* INSERT INTO temp_blobs (id, uploaded_at, location)
create_blob_temp(id, location) ==
    temp_blobs \cup {[id |-> id, location |-> location]}

\* DELETE FROM temp_blobs WHERE id = $1
delete_blob_temp(id) == {t \in temp_blobs : t.id # id}

\* primary key of objects: (bucket, oid, last_modified)
ObjectsPkFree(rows, bucket, oid, ts) ==
    ~ \E o \in rows : o.bucket = bucket /\ o.oid = oid /\ o.last_modified = ts

\* commit_object, first statement: INSERT INTO blobs
InsertBlob(t, blob) == [t EXCEPT !.blobs = @ \cup {blob}]

\* commit_object, second statement: INSERT INTO objects ... CURRENT_TIMESTAMP
InsertObject(t, object, blob) ==
    [t EXCEPT !.objects = @ \cup {[bucket |-> object.bucket_name,
                                   oid |-> object.oid,
                                   last_modified |-> t.ts,
                                   blob |-> blob.id]}]

\* commit_object, third statement: DELETE FROM temp_blobs WHERE id = $1
DeleteTempBlob(t, blob) == [t EXCEPT !.del_temp = @ \cup {blob.id}]

\* faulty variant: the blobs row is lost, the objects row is kept
TxCommitBlobs_lost(t) == blobs

\* tx.commit(): the buffered statements reach the tables in one step
TxCommitBlobs(t) == blobs \cup t.blobs

\* faulty variant: the objects row is lost, the blobs row is kept
TxCommitObjects_lost(t) == objects

TxCommitObjects(t) == objects \cup t.objects
TxCommitTempBlobs(t) == {x \in temp_blobs : x.id \notin t.del_temp}

\* faulty variant: a dropped Transaction keeps the blobs rows it inserted
RollbackBlobs_kept(t) == blobs \cup t.blobs

\* a Transaction dropped without commit is rolled back: the tables keep
\* their rows and the buffered statements are discarded
RollbackBlobs(t) == blobs

\* faulty variant: a dropped Transaction keeps the objects rows it inserted
RollbackObjects_kept(t) == objects \cup t.objects

RollbackObjects(t) == objects
RollbackTempBlobs(t) == temp_blobs

\* get_object(bucket, key): latest row by last_modified DESC, LEFT JOIN blobs
get_object(bucket, key) ==
    LET rows == {o \in objects : o.bucket = bucket /\ o.oid = key}
        latest == {o \in rows : \A p \in rows : p.last_modified <= o.last_modified}
    IN  {[object |-> o, blob |-> {b \in blobs : b.id = o.blob}] : o \in latest}

-----------------------------------------------------------------------------
(***************************************************************************)
(* Per-request bookkeeping                                                 *)
(***************************************************************************)
Finish(r, res) ==
    /\ pc' = [pc EXCEPT ![r] = "done"]
    /\ result' = [result EXCEPT ![r] = res]

Goto(r, where) ==
    /\ pc' = [pc EXCEPT ![r] = where]
    /\ UNCHANGED result

Called(r, name) == calls' = [calls EXCEPT ![r] = @ \cup {name}]

NoLoc == [region |-> None, backend |-> <<None, NoUuid>>]

\* the Object and Blob values put_object builds
PutObjectRow(r) == [bucket_name |-> req[r].bucket, oid |-> req[r].key]
PutBlobRow(r) ==
    [id |-> new_blob[r], size |-> ContentLength(req[r].body),
     placement |-> placement[r], etag |-> UpstreamEtag(req[r].body)]

\* PutObject requests: every input, and the inputs that pass the checks made
\* before the first write
PutInputs ==
    [op : {"PutObject"}, bucket : BucketNames, key : Keys, creds : BOOLEAN,
     storage_class : StorageClasses, body : Bodies, has_len : BOOLEAN,
     upload_id : {None}, part : {0}]
PutInputsOk ==
    {i \in PutInputs : i.bucket = "b1" /\ i.creds /\ i.storage_class = None}

-----------------------------------------------------------------------------
(***************************************************************************)
(* RadosStore::put_object                                                  *)
(***************************************************************************)
\* faulty variant: every storage class is accepted
ValidStorageClass_any(sc) == TRUE

\* the storage classes put_object accepts
ValidStorageClass(sc) == sc = None \/ sc \in {"STANDARD"}

\* entry up to the first await: the storage class check
put_object_call(r, inputs) ==
    /\ pc[r] = "idle"
    /\ \E i \in inputs :
        /\ req' = [req EXCEPT ![r] = i]
        /\ IF ~ValidStorageClass(i.storage_class)
           THEN Finish(r, "InvalidStorageClass")
           ELSE Goto(r, "put_get_bucket")
    /\ UNCHANGED <<db, store, now, next_uuid, locals, tx, attempts, response,
                   calls>>

\* self.db.get_bucket(..).await?, the credentials check, Uuid::new_v4()
put_object_get_bucket(r) ==
    /\ pc[r] = "put_get_bucket"
    /\ \/ /\ Finish(r, "InternalError")
          /\ UNCHANGED <<next_uuid, new_blob, placement>>
       \/ /\ get_bucket(req[r].bucket) = {}
          /\ Finish(r, "NoSuchBucket")
          /\ UNCHANGED <<next_uuid, new_blob, placement>>
       \/ /\ get_bucket(req[r].bucket) # {}
          /\ ~req[r].creds
          /\ Finish(r, "AccessDenied")
          /\ UNCHANGED <<next_uuid, new_blob, placement>>
       \/ /\ req[r].creds
          /\ next_uuid <= MaxBlobs
          /\ \E b \in get_bucket(req[r].bucket) :
                placement' = [placement EXCEPT ![r] = b.location]
          /\ new_blob' = [new_blob EXCEPT ![r] = next_uuid]
          /\ next_uuid' = next_uuid + 1
          /\ Goto(r, "put_create_blob_temp")
    /\ UNCHANGED <<db, store, now, req, fetched, upload, tx, attempts,
                   response, calls>>

\* self.db.create_blob_temp(&new_blob, &bucket.location).await?
put_object_create_blob_temp(r) ==
    /\ pc[r] = "put_create_blob_temp"
    /\ \/ /\ Finish(r, "InternalError")
          /\ UNCHANGED <<temp_blobs, calls>>
       \/ /\ temp_blobs' = create_blob_temp(new_blob[r], placement[r])
          /\ Called(r, "db.create_blob_temp")
          /\ Goto(r, "put_upload")
    /\ UNCHANGED <<buckets, buckets_gc, buckets_temp, partitions, blobs,
                   objects, blobs_gc, multiparts, store, now,
                   next_uuid, req, locals, tx, attempts, response>>

\* self.blob.put_object(put_request, &bucket.location).await
put_object_upload(r) ==
    /\ pc[r] = "put_upload"
    /\ Called(r, "blob.put_object")
    /\ \/ /\ backing' = backing \cup {[loc |-> placement[r], key |-> new_blob[r],
                                      body |-> req[r].body,
                                      etag |-> UpstreamEtag(req[r].body)]}
          /\ IF req[r].has_len
             THEN Goto(r, "commit_begin")
             ELSE Finish(r, "panic")  \* content_length.expect(..)
       \/ /\ UNCHANGED backing
          /\ Goto(r, "put_delete_blob_temp")
    /\ UNCHANGED <<db, backing_mp, backing_buckets, now, next_uuid, req,
                   locals, tx, attempts,
                   response>>

\* Err(e) => { self.db.delete_blob_temp(&new_blob).await?; return Err(e); }
put_object_delete_blob_temp(r) ==
    /\ pc[r] = "put_delete_blob_temp"
    /\ \/ /\ Finish(r, "InternalError")
          /\ UNCHANGED <<temp_blobs, calls>>
       \/ /\ temp_blobs' = delete_blob_temp(new_blob[r])
          /\ Called(r, "db.delete_blob_temp")
          /\ Finish(r, "BackingError")
    /\ UNCHANGED <<buckets, buckets_gc, buckets_temp, partitions, blobs,
                   objects, blobs_gc, multiparts, store, now,
                   next_uuid, req, locals, tx, attempts, response>>

-----------------------------------------------------------------------------
(***************************************************************************)
(* PostgresDatabase::commit_object, as called by put_object                *)
(*   let _timestamp = self.db.commit_object(&object, &blob).await?;        *)
(* Every statement is wrapped in try_!: its failure returns InternalError  *)
(* and drops the transaction, which rolls it back.                         *)
(***************************************************************************)
\* a failed statement: try_! returns, tx is dropped
DropTx(r) ==
    /\ blobs' = RollbackBlobs(tx[r])
    /\ objects' = RollbackObjects(tx[r])
    /\ temp_blobs' = RollbackTempBlobs(tx[r])
    /\ tx' = [tx EXCEPT ![r] = NoTx]

CommitFailed(r) ==
    /\ DropTx(r)
    /\ Finish(r, "InternalError")

\* self.db_conn.begin().await
commit_object_begin(r) ==
    /\ pc[r] = "commit_begin"
    /\ attempts' = [attempts EXCEPT ![r] = @ + 1]
    /\ \/ /\ Finish(r, "InternalError")
          /\ UNCHANGED <<tx, now>>
       \/ \E t \in {now, now + 1} :
          /\ t <= MaxTime
          /\ now' = t
          /\ tx' = [tx EXCEPT ![r] = [NoTx EXCEPT !.open = TRUE, !.ts = t]]
          /\ Goto(r, "commit_insert_blob")
    /\ UNCHANGED <<db, store, next_uuid, req, locals, response, calls>>

\* INSERT INTO blobs (id, location, etag, size)
commit_object_insert_blob(r) ==
    /\ pc[r] = "commit_insert_blob"
    /\ \/ CommitFailed(r)
       \/ /\ tx' = [tx EXCEPT ![r] = InsertBlob(@, PutBlobRow(r))]
          /\ Goto(r, "commit_insert_object")
          /\ UNCHANGED <<blobs, objects, temp_blobs>>
    /\ UNCHANGED <<buckets, buckets_gc, buckets_temp, partitions, blobs_gc,
                   multiparts, store, now, next_uuid, req,
                   locals, attempts, response, calls>>

\* INSERT INTO objects (bucket, oid, last_modified, blob) ... RETURNING last_modified
commit_object_insert_object(r) ==
    /\ pc[r] = "commit_insert_object"
    /\ \/ CommitFailed(r)
       \/ /\ ObjectsPkFree(objects, req[r].bucket, req[r].key, tx[r].ts)
          /\ tx' = [tx EXCEPT ![r] = InsertObject(@, PutObjectRow(r), PutBlobRow(r))]
          /\ Goto(r, "commit_delete_temp")
          /\ UNCHANGED <<blobs, objects, temp_blobs>>
    /\ UNCHANGED <<buckets, buckets_gc, buckets_temp, partitions, blobs_gc,
                   multiparts, store, now, next_uuid, req,
                   locals, attempts, response, calls>>

\* DELETE FROM temp_blobs WHERE id = $1
commit_object_delete_temp(r) ==
    /\ pc[r] = "commit_delete_temp"
    /\ \/ CommitFailed(r)
       \/ /\ tx' = [tx EXCEPT ![r] = DeleteTempBlob(@, PutBlobRow(r))]
          /\ Goto(r, "commit_commit")
          /\ UNCHANGED <<blobs, objects, temp_blobs>>
    /\ UNCHANGED <<buckets, buckets_gc, buckets_temp, partitions, blobs_gc,
                   multiparts, store, now, next_uuid, req,
                   locals, attempts, response, calls>>

\* tx.commit().await, then put_object returns its response
commit_object_commit(r) ==
    /\ pc[r] = "commit_commit"
    /\ \/ /\ CommitFailed(r)
          /\ UNCHANGED <<response, calls>>
       \/ /\ \A o \in tx[r].objects :
                ObjectsPkFree(objects, o.bucket, o.oid, o.last_modified)
          /\ blobs' = TxCommitBlobs(tx[r])
          /\ objects' = TxCommitObjects(tx[r])
          /\ temp_blobs' = TxCommitTempBlobs(tx[r])
          /\ tx' = [tx EXCEPT ![r] = NoTx]
          /\ Called(r, "db.commit_object")
          /\ response' = [response EXCEPT ![r] =
                            [body |-> NoBody, e_tag |-> UpstreamEtag(req[r].body),
                             last_modified |-> None]]
          /\ Finish(r, "Ok")
    /\ UNCHANGED <<buckets, buckets_gc, buckets_temp, partitions, blobs_gc,
                   multiparts, store, now, next_uuid, req,
                   locals, attempts>>

-----------------------------------------------------------------------------
(***************************************************************************)
(* RadosStore::get_object and RadosStore::head_object                      *)
(***************************************************************************)
\* GetObject and HeadObject requests: every input, and the authorised ones
\* on the existing bucket
ReadInputs ==
    [op : {"GetObject", "HeadObject"}, bucket : BucketNames, key : Keys,
     creds : BOOLEAN, storage_class : {None}, body : {NoBody}, has_len : {FALSE},
     upload_id : {None}, part : {0}]

NoRow == [object |-> None, blob |-> None]
NoResponse == [body |-> NoBody, e_tag |-> None, last_modified |-> None]

ReadInputsOk == {i \in ReadInputs : i.bucket = "b1" /\ i.creds}

\* entry of get_object and head_object: nothing happens before the first await
get_object_call(r, inputs) ==
    /\ pc[r] = "idle"
    /\ \E i \in inputs : req' = [req EXCEPT ![r] = i]
    /\ Goto(r, "get_db")
    /\ UNCHANGED <<db, store, now, next_uuid, locals, tx, attempts, response,
                   calls>>

\* let Some((object, blob)) = self.db.get_object(..).await? else NoSuchKey
get_object_db(r) ==
    /\ pc[r] = "get_db"
    /\ \/ /\ Finish(r, "InternalError")
          /\ UNCHANGED fetched
       \/ /\ get_object(req[r].bucket, req[r].key) = {}
          /\ Finish(r, "NoSuchKey")
          /\ UNCHANGED fetched
       \/ \E row \in get_object(req[r].bucket, req[r].key) :
          \/ /\ row.blob = {}
             /\ Finish(r, "NoSuchKey")
             /\ UNCHANGED fetched
          \/ \E b \in row.blob :
             /\ fetched' = [fetched EXCEPT ![r] = [object |-> row.object, blob |-> b]]
             /\ Goto(r, "get_fetch")
    /\ UNCHANGED <<db, store, now, next_uuid, req, new_blob, placement,
                   upload, tx, attempts, response, calls>>

\* the backing store stamps its objects with its own clock, which is not the
\* database's
UpstreamLastModified == -1

\* the response of the backing store's GetObject / HeadObject for object x
UpstreamResponse(x) ==
    [body |-> x.body, e_tag |-> x.etag, last_modified |-> UpstreamLastModified]

\* faulty variant: the upstream etag and timestamp are passed on
ReadOutput_upstream(r, upstream) ==
    [body |-> IF req[r].op = "GetObject" THEN upstream.body ELSE NoBody,
     e_tag |-> upstream.e_tag,
     last_modified |-> upstream.last_modified]

\* the output built from the upstream response, the blobs row and the objects row
ReadOutput(r, upstream) ==
    [body |-> IF req[r].op = "GetObject" THEN upstream.body ELSE NoBody,
     e_tag |-> fetched[r].blob.etag,
     last_modified |-> fetched[r].object.last_modified]

\* self.blob.get_object / head_object(blob_req, &blob.placement).await?
get_object_fetch(r) ==
    /\ pc[r] = "get_fetch"
    /\ Called(r, IF req[r].op = "GetObject" THEN "blob.get_object"
                                            ELSE "blob.head_object")
    /\ \/ /\ Finish(r, "BackingError")
          /\ UNCHANGED response
       \/ /\ ~ \E x \in backing : x.loc = fetched[r].blob.placement
                                  /\ x.key = fetched[r].blob.id
          /\ Finish(r, "BackingNoSuchKey")
          /\ UNCHANGED response
       \/ \E x \in backing :
          /\ x.loc = fetched[r].blob.placement
          /\ x.key = fetched[r].blob.id
          /\ response' = [response EXCEPT ![r] = ReadOutput(r, UpstreamResponse(x))]
          /\ Finish(r, "Ok")
    /\ UNCHANGED <<db, store, now, next_uuid, req, locals, tx, attempts>>

-----------------------------------------------------------------------------
(***************************************************************************)
(* PostgresDatabase: the multipart statements                              *)
(***************************************************************************)
NoUpload == [bucket |-> None, oid |-> None, upload_id |-> None,
             blob_id |-> NoUuid, location |-> NoLoc]

\* INSERT INTO active_multipart_uploads
create_multipart(row) == multiparts \cup {row}

\* SELECT ... FROM active_multipart_uploads WHERE (bucket, oid, upload_id) = ..
get_multipart(bucket, oid, upload_id) ==
    {m \in multiparts : m.bucket = bucket /\ m.oid = oid /\ m.upload_id = upload_id}

\* the rows of objects that a completed upload of (bucket, oid) supplants
Supplanted(object) ==
    {o \in objects : o.bucket = object.bucket_name /\ o.oid = object.oid}

\* complete_multipart(object, blob, upload): one transaction that inserts the
\* blobs row and the objects row, deletes the active-multipart row and
\* queues the blob of the object it supplants
CompleteMultipartBlobs(blob) == blobs \cup {blob}
CompleteMultipartObjects(object, ts) ==
    (objects \ Supplanted(object))
        \cup {[bucket |-> object.bucket_name, oid |-> object.oid,
               last_modified |-> ts, blob |-> object.blob_id]}
CompleteMultipartGc(object) == blobs_gc \cup {o.blob : o \in Supplanted(object)}
CompleteMultipartUploads(row) == multiparts \ {row}

(***************************************************************************)
(* The backing store's multipart uploads                                   *)
(***************************************************************************)
\* the open upload a request addresses
OpenUpload(loc, key, upload_id) ==
    {u \in backing_mp : u.loc = loc /\ u.key = key /\ u.upload_id = upload_id}

\* a part uploaded under a part number replaces the earlier one
WithPart(u, n, body) ==
    [u EXCEPT !.parts = {p \in @ : p.n # n} \cup {[n |-> n, body |-> body]}]

\* the payload of a completed upload: its parts in part-number order
RECURSIVE Assemble(_)
Assemble(parts) ==
    IF parts = {} THEN <<>>
    ELSE LET first == CHOOSE p \in parts : \A q \in parts : p.n <= q.n
         IN  first.body \o Assemble(parts \ {first})

(***************************************************************************)
(* RadosStore::create_multipart_upload                                     *)
(***************************************************************************)
CreateMultipartInputs ==
    [op : {"CreateMultipartUpload"}, bucket : BucketNames, key : Keys,
     creds : BOOLEAN, storage_class : StorageClasses, body : {NoBody},
     has_len : {FALSE}, upload_id : {None}, part : {0}]
CreateMultipartInputsOk ==
    {i \in CreateMultipartInputs :
        i.bucket = "b1" /\ i.creds /\ i.storage_class = None}

\* entry up to the first await: storage class check, credentials check
create_multipart_upload_call(r, inputs) ==
    /\ pc[r] = "idle"
    /\ \E i \in inputs :
        /\ req' = [req EXCEPT ![r] = i]
        /\ IF ~ValidStorageClass(i.storage_class)
           THEN Finish(r, "InvalidStorageClass")
           ELSE IF ~i.creds
                THEN Finish(r, "AccessDenied")
                ELSE Goto(r, "cmu_get_bucket")
    /\ UNCHANGED <<db, store, now, next_uuid, locals, tx, attempts, response,
                   calls>>

\* self.db.get_bucket(..).await?, Uuid::new_v4()
create_multipart_upload_get_bucket(r) ==
    /\ pc[r] = "cmu_get_bucket"
    /\ \/ /\ Finish(r, "InternalError")
          /\ UNCHANGED <<next_uuid, new_blob, placement>>
       \/ /\ get_bucket(req[r].bucket) = {}
          /\ Finish(r, "NoSuchBucket")
          /\ UNCHANGED <<next_uuid, new_blob, placement>>
       \/ /\ next_uuid <= MaxBlobs
          /\ \E b \in get_bucket(req[r].bucket) :
                placement' = [placement EXCEPT ![r] = b.location]
          /\ new_blob' = [new_blob EXCEPT ![r] = next_uuid]
          /\ next_uuid' = next_uuid + 1
          /\ Goto(r, "cmu_upstream")
    /\ UNCHANGED <<db, store, now, req, fetched, upload, tx, attempts,
                   response, calls>>

\* self.blob.create_multipart_upload(upstream_request, &bucket.location).await?
create_multipart_upload_upstream(r) ==
    /\ pc[r] = "cmu_upstream"
    /\ Called(r, "blob.create_multipart_upload")
    /\ \/ /\ Finish(r, "BackingError")
          /\ UNCHANGED backing_mp
       \/ /\ backing_mp' = backing_mp \cup
                {[loc |-> placement[r], key |-> new_blob[r],
                  upload_id |-> UploadIdOf(new_blob[r]), parts |-> {}]}
          /\ Goto(r, "cmu_db")
    /\ UNCHANGED <<db, backing, backing_buckets, now, next_uuid, req, locals,
                   tx, attempts,
                   response>>

\* the MultipartUpload row create_multipart_upload builds
NewUploadRow(r) ==
    [bucket |-> req[r].bucket, oid |-> req[r].key,
     upload_id |-> UploadIdOf(new_blob[r]), blob_id |-> new_blob[r],
     location |-> placement[r]]

\* self.db.create_multipart(&MultipartUpload {..}).await?
create_multipart_upload_db(r) ==
    /\ pc[r] = "cmu_db"
    /\ \/ /\ Finish(r, "InternalError")
          /\ UNCHANGED <<multiparts, calls>>
       \/ /\ multiparts' = create_multipart(NewUploadRow(r))
          /\ Called(r, "db.create_multipart")
          /\ Finish(r, "Ok")
    /\ UNCHANGED <<buckets, buckets_gc, buckets_temp, partitions, temp_blobs,
                   blobs, objects, blobs_gc, store, now,
                   next_uuid, req, locals, tx, attempts, response>>

(***************************************************************************)
(* RadosStore::upload_part                                                 *)
(***************************************************************************)
UploadPartInputs ==
    [op : {"UploadPart"}, bucket : BucketNames, key : Keys, creds : BOOLEAN,
     storage_class : {None}, body : Bodies, has_len : {TRUE},
     upload_id : UploadIds, part : PartNumbers]
UploadPartInputsOk == {i \in UploadPartInputs : i.bucket = "b1" /\ i.creds}

\* entry of upload_part: nothing happens before the first await
upload_part_call(r, inputs) ==
    /\ pc[r] = "idle"
    /\ \E i \in inputs : req' = [req EXCEPT ![r] = i]
    /\ Goto(r, "up_get_bucket")
    /\ UNCHANGED <<db, store, now, next_uuid, locals, tx, attempts, response,
                   calls>>

\* self.db.get_bucket(..).await?, then the credentials check
upload_part_get_bucket(r) ==
    /\ pc[r] = "up_get_bucket"
    /\ \/ Finish(r, "InternalError")
       \/ /\ get_bucket(req[r].bucket) = {}
          /\ Finish(r, "NoSuchBucket")
       \/ /\ get_bucket(req[r].bucket) # {}
          /\ IF ~req[r].creds
             THEN Finish(r, "AccessDenied")
             ELSE Goto(r, "up_get_multipart")
    /\ UNCHANGED <<db, store, now, next_uuid, req, locals, tx, attempts,
                   response, calls>>

\* faulty variant: a part is forwarded whether or not the upload is known
upload_part_get_multipart_forward(r) ==
    /\ pc[r] = "up_get_multipart"
    /\ \/ /\ Finish(r, "InternalError")
          /\ UNCHANGED upload
       \/ /\ get_multipart(req[r].bucket, req[r].key, req[r].upload_id) = {}
          /\ Goto(r, "up_upstream")
          /\ UNCHANGED upload
       \/ \E m \in get_multipart(req[r].bucket, req[r].key, req[r].upload_id) :
          /\ upload' = [upload EXCEPT ![r] = m]
          /\ Goto(r, "up_upstream")
    /\ UNCHANGED <<db, store, now, next_uuid, req, new_blob, placement,
                   fetched, tx, attempts, response, calls>>

\* let Some(upload) = self.db.get_multipart(..).await? else NoSuchUpload
upload_part_get_multipart(r) ==
    /\ pc[r] = "up_get_multipart"
    /\ \/ /\ Finish(r, "InternalError")
          /\ UNCHANGED upload
       \/ /\ get_multipart(req[r].bucket, req[r].key, req[r].upload_id) = {}
          /\ Finish(r, "NoSuchUpload")
          /\ UNCHANGED upload
       \/ \E m \in get_multipart(req[r].bucket, req[r].key, req[r].upload_id) :
          /\ upload' = [upload EXCEPT ![r] = m]
          /\ Goto(r, "up_upstream")
    /\ UNCHANGED <<db, store, now, next_uuid, req, new_blob, placement,
                   fetched, tx, attempts, response, calls>>

\* self.blob.upload_part(request, &upload.location).await?
upload_part_upstream(r) ==
    /\ pc[r] = "up_upstream"
    /\ Called(r, "blob.upload_part")
    /\ \/ /\ Finish(r, "BackingError")
          /\ UNCHANGED <<backing_mp, response>>
       \/ \E u \in OpenUpload(upload[r].location, upload[r].blob_id,
                              req[r].upload_id) :
          /\ backing_mp' = (backing_mp \ {u})
                              \cup {WithPart(u, req[r].part, req[r].body)}
          /\ response' = [response EXCEPT ![r] =
                            [body |-> NoBody, e_tag |-> UpstreamEtag(req[r].body),
                             last_modified |-> None]]
          /\ Finish(r, "Ok")
    /\ UNCHANGED <<db, backing, backing_buckets, now, next_uuid, req, locals,
                   tx, attempts>>

(***************************************************************************)
(* RadosStore::complete_multipart_upload                                   *)
(***************************************************************************)
CompleteMultipartInputs ==
    [op : {"CompleteMultipartUpload"}, bucket : BucketNames, key : Keys,
     creds : BOOLEAN, storage_class : {None}, body : {NoBody},
     has_len : {FALSE}, upload_id : UploadIds, part : {0}]
CompleteMultipartInputsOk ==
    {i \in CompleteMultipartInputs : i.bucket = "b1" /\ i.creds}

\* entry up to the first await: the credentials check
complete_multipart_upload_call(r, inputs) ==
    /\ pc[r] = "idle"
    /\ \E i \in inputs :
        /\ req' = [req EXCEPT ![r] = i]
        /\ IF ~i.creds
           THEN Finish(r, "AccessDenied")
           ELSE Goto(r, "cmp_get_bucket")
    /\ UNCHANGED <<db, store, now, next_uuid, locals, tx, attempts, response,
                   calls>>

\* let Some(bucket) = self.db.get_bucket(..).await? else NoSuchBucket
complete_multipart_upload_get_bucket(r) ==
    /\ pc[r] = "cmp_get_bucket"
    /\ \/ /\ Finish(r, "InternalError")
          /\ UNCHANGED placement
       \/ /\ get_bucket(req[r].bucket) = {}
          /\ Finish(r, "NoSuchBucket")
          /\ UNCHANGED placement
       \/ \E b \in get_bucket(req[r].bucket) :
          /\ placement' = [placement EXCEPT ![r] = b.location]
          /\ Goto(r, "cmp_get_multipart")
    /\ UNCHANGED <<db, store, now, next_uuid, req, new_blob, fetched, upload,
                   tx, attempts, response, calls>>

\* let Some(upload) = self.db.get_multipart(..).await? else NoSuchUpload
complete_multipart_upload_get_multipart(r) ==
    /\ pc[r] = "cmp_get_multipart"
    /\ \/ /\ Finish(r, "InternalError")
          /\ UNCHANGED upload
       \/ /\ get_multipart(req[r].bucket, req[r].key, req[r].upload_id) = {}
          /\ Finish(r, "NoSuchUpload")
          /\ UNCHANGED upload
       \/ \E m \in get_multipart(req[r].bucket, req[r].key, req[r].upload_id) :
          /\ upload' = [upload EXCEPT ![r] = m]
          /\ Goto(r, "cmp_upstream")
    /\ UNCHANGED <<db, store, now, next_uuid, req, new_blob, placement,
                   fetched, tx, attempts, response, calls>>

\* self.blob.complete_multipart_upload(upstream_request, &bucket.location).await?
complete_multipart_upload_upstream(r) ==
    /\ pc[r] = "cmp_upstream"
    /\ Called(r, "blob.complete_multipart_upload")
    /\ \/ /\ Finish(r, "BackingError")
          /\ UNCHANGED <<backing, backing_mp, response>>
       \/ \E u \in OpenUpload(placement[r], upload[r].blob_id, req[r].upload_id) :
          /\ u.parts # {}
          /\ backing' = backing \cup
                {[loc |-> u.loc, key |-> u.key, body |-> Assemble(u.parts),
                  etag |-> UpstreamEtag(Assemble(u.parts))]}
          /\ backing_mp' = backing_mp \ {u}
          /\ response' = [response EXCEPT ![r] =
                            [body |-> NoBody,
                             e_tag |-> UpstreamEtag(Assemble(u.parts)),
                             last_modified |-> None]]
          /\ Goto(r, "cmp_db")
    /\ UNCHANGED <<db, backing_buckets, now, next_uuid, req, locals, tx, attempts>>

\* faulty variant: the object is bound to no blob
CompletedObject_unbound(r) ==
    [bucket_name |-> upload[r].bucket, oid |-> upload[r].oid,
     blob_id |-> NoUuid]

\* the Object and Blob values complete_multipart_upload builds
CompletedObject(r) ==
    [bucket_name |-> upload[r].bucket, oid |-> upload[r].oid,
     blob_id |-> upload[r].blob_id]

\* faulty variant: the blobs row records no placement
CompletedBlob_misplaced(r) ==
    [id |-> upload[r].blob_id, size |-> 0, placement |-> NoLoc,
     etag |-> response[r].e_tag]

\* the Blob value complete_multipart_upload builds
CompletedBlob(r) ==
    [id |-> upload[r].blob_id, size |-> 0, placement |-> upload[r].location,
     etag |-> response[r].e_tag]

\* self.db.complete_multipart(&Object {..}, &Blob {..}, &upload).await?
complete_multipart_upload_db(r) ==
    /\ pc[r] = "cmp_db"
    /\ \/ /\ Finish(r, "InternalError")
          /\ UNCHANGED <<blobs, objects, blobs_gc, multiparts, now, calls>>
       \/ \E t \in {now, now + 1} :
          /\ t <= MaxTime
          /\ upload[r].blob_id \notin {b.id : b \in blobs}
          /\ now' = t
          /\ blobs' = CompleteMultipartBlobs(CompletedBlob(r))
          /\ objects' = CompleteMultipartObjects(CompletedObject(r), t)
          /\ blobs_gc' = CompleteMultipartGc(CompletedObject(r))
          /\ multiparts' = CompleteMultipartUploads(upload[r])
          /\ Called(r, "db.complete_multipart")
          /\ Finish(r, "Ok")
    /\ UNCHANGED <<buckets, buckets_gc, buckets_temp, partitions, temp_blobs,
                   store, next_uuid, req, locals, tx,
                   attempts, response>>

(***************************************************************************)
(* Handlers without a first await                                          *)
(***************************************************************************)
DeleteObjectInputs ==
    [op : {"DeleteObject"}, bucket : BucketNames, key : Keys, creds : BOOLEAN,
     storage_class : {None}, body : {NoBody}, has_len : {FALSE},
     upload_id : {None}, part : {0}]

\* RadosStore::delete_object: todo!()
delete_object_call(r, inputs) ==
    /\ pc[r] = "idle"
    /\ \E i \in inputs : req' = [req EXCEPT ![r] = i]
    /\ Finish(r, "panic")
    /\ UNCHANGED <<db, store, now, next_uuid, locals, tx, attempts, response,
                   calls>>

DeleteBucketInputs ==
    [op : {"DeleteBucket"}, bucket : BucketNames \cup NewBucketNames, key : {None},
     creds : BOOLEAN,
     storage_class : {None}, body : {NoBody}, has_len : {FALSE},
     upload_id : {None}, part : {0}]

\* RadosStore::delete_bucket: todo!()
delete_bucket_call(r, inputs) ==
    /\ pc[r] = "idle"
    /\ \E i \in inputs : req' = [req EXCEPT ![r] = i]
    /\ Finish(r, "panic")
    /\ UNCHANGED <<db, store, now, next_uuid, locals, tx, attempts, response,
                   calls>>

AbortMultipartInputs ==
    [op : {"AbortMultipartUpload"}, bucket : BucketNames, key : Keys,
     creds : BOOLEAN, storage_class : {None}, body : {NoBody},
     has_len : {FALSE}, upload_id : UploadIds, part : {0}]

\* RadosStore::abort_multipart_upload: Err(NotImplemented)
abort_multipart_upload_call(r, inputs) ==
    /\ pc[r] = "idle"
    /\ \E i \in inputs : req' = [req EXCEPT ![r] = i]
    /\ Finish(r, "NotImplemented")
    /\ UNCHANGED <<db, store, now, next_uuid, locals, tx, attempts, response,
                   calls>>

\* the prefixes, delimiters, start_after keys and page sizes a listing
\* request carries
Prefixes == {<<>>, <<"k">>}
Delimiters == {"/", "1"}
StartAfters == {<<>>, <<"k">>}
PageSizes == {1, 2}

ListObjectsInputs ==
    [op : {"ListObjects"}, bucket : BucketNames, key : {None}, creds : BOOLEAN,
     storage_class : {None}, body : {NoBody}, has_len : {FALSE},
     upload_id : {None}, part : {0}, prefix : Prefixes, delimiter : Delimiters,
     start_after : StartAfters, max_keys : PageSizes]
ListObjectsV2Inputs ==
    [op : {"ListObjectsV2"}, bucket : BucketNames, key : {None}, creds : BOOLEAN,
     storage_class : {None}, body : {NoBody}, has_len : {FALSE},
     upload_id : {None}, part : {0}, prefix : Prefixes, delimiter : Delimiters,
     start_after : StartAfters, max_keys : PageSizes]

\* RadosStore::list_objects_v2: todo!()
list_objects_v2_call(r, inputs) ==
    /\ pc[r] = "idle"
    /\ \E i \in inputs : req' = [req EXCEPT ![r] = i]
    /\ Finish(r, "panic")
    /\ UNCHANGED <<db, store, now, next_uuid, locals, tx, attempts, response,
                   calls>>

\* RadosStore::list_objects: self.list_objects_v2(req.map_input(Into::into)).await?
list_objects_call(r, inputs) ==
    /\ pc[r] = "idle"
    /\ \E i \in inputs : req' = [req EXCEPT ![r] = i]
    /\ Finish(r, "panic")
    /\ UNCHANGED <<db, store, now, next_uuid, locals, tx, attempts, response,
                   calls>>

(***************************************************************************)
(* RadosStore::head_bucket                                                 *)
(***************************************************************************)
HeadBucketInputs ==
    [op : {"HeadBucket"}, bucket : BucketNames, key : {None}, creds : BOOLEAN,
     storage_class : {None}, body : {NoBody}, has_len : {FALSE},
     upload_id : {None}, part : {0}]

\* entry of head_bucket: nothing happens before the first await
head_bucket_call(r, inputs) ==
    /\ pc[r] = "idle"
    /\ \E i \in inputs : req' = [req EXCEPT ![r] = i]
    /\ Goto(r, "hb_get_bucket")
    /\ UNCHANGED <<db, store, now, next_uuid, locals, tx, attempts, response,
                   calls>>

\* let Some(_bucket) = self.db.get_bucket(..).await? else NoSuchBucket
head_bucket_get_bucket(r) ==
    /\ pc[r] = "hb_get_bucket"
    /\ \/ Finish(r, "InternalError")
       \/ /\ get_bucket(req[r].bucket) = {}
          /\ Finish(r, "NoSuchBucket")
       \/ /\ get_bucket(req[r].bucket) # {}
          /\ Finish(r, "Ok")
    /\ UNCHANGED <<db, store, now, next_uuid, req, locals, tx, attempts,
                   response, calls>>

-----------------------------------------------------------------------------
(***************************************************************************)
(* RadosStore::create_bucket, with PostgresDatabase::create_bucket_temp,   *)
(* delete_bucket_temp and commit_bucket and S3Client::get_location and     *)
(* create_bucket.  The tables users and keys are provisioned out of band:  *)
(* no handler writes them.                                                 *)
(***************************************************************************)
\* the characters of a bucket name
Chars(name) ==
    CASE name = "b1" -> <<"b", "1">>
      [] name = "nob" -> <<"n", "o", "b">>
      [] name = "a-b" -> <<"a", "-", "b">>
      [] name = "a.b" -> <<"a", ".", "b">>

\* str::replace with one-character patterns
replace(s, from, to) == [i \in 1..Len(s) |-> IF s[i] = from THEN to ELSE s[i]]

\* format!("objects_bucket_{}", name.replace("-", "_"))
PartitionTable(name) == <<"objects_bucket_">> \o replace(Chars(name), "-", "_")

\* CREATE TABLE takes the name unquoted: it has to be one identifier
ValidTableName(table) == \A i \in 1..Len(table) : table[i] \notin {"-", "."}

\* rows of table keys
KeysTable == {[access_key |-> "ak1", user_id |-> "u1"],
              [access_key |-> "ak2", user_id |-> "u2"]}
AccessKeys == {"ak0", "ak1", "ak2"}

\* SELECT users.* from keys JOIN users ... WHERE keys.access_key = $1
get_user_by_access_key(key) == {k.user_id : k \in {x \in KeysTable : x.access_key = key}}

\* cfg.storage.bucket: no shared backing bucket is configured
StorageBucket == None

Regions == {None, "r1"}

\* S3Client::default_region
default_region == "default"

\* S3Client::get_location: the backing bucket is the configured one or
\* format!("{}-{}", bucket, Uuid::new_v4())
get_location(region, bucket, uuid) ==
    [region |-> region,
     backend |-> IF StorageBucket # None THEN <<StorageBucket, NoUuid>>
                 ELSE <<bucket, uuid>>]

\* the closure of create_bucket that picks the region of the new bucket
CreateBucketLocation(r, uuid) ==
    IF req[r].region = None
    THEN get_location(default_region, req[r].bucket, uuid)
    ELSE get_location(req[r].region, req[r].bucket, uuid)

\* primary key of buckets_temp: name
BucketsTempPkFree(name) == ~ \E t \in buckets_temp : t.name = name

\* INSERT INTO buckets_temp (name, location, creation_date)
create_bucket_temp(name, location) ==
    buckets_temp \cup {[name |-> name, location |-> location]}

\* DELETE FROM buckets_temp WHERE name = $1
delete_bucket_temp(name) == {t \in buckets_temp : t.name # name}

\* primary key of buckets: name
BucketsPkFree(name) == ~ \E b \in buckets : b.name = name

\* a partition needs a table name of its own and a value no partition holds
PartitionFree(name) ==
    ~ \E p \in partitions : p.table = PartitionTable(name) \/ p.bucket = name

\* faulty variant: the row is inserted for another owner
InsertBucket_anon(t, name, user, location) ==
    [t EXCEPT !.buckets = @ \cup {[name |-> name, owner |-> "nobody",
                                   location |-> location]}]

\* commit_bucket, first statement: INSERT INTO buckets
InsertBucket(t, name, user, location) ==
    [t EXCEPT !.buckets = @ \cup {[name |-> name, owner |-> user,
                                   location |-> location]}]

\* commit_bucket, second statement: DELETE FROM buckets_temp WHERE name = $1
DeleteBucketTemp(t, name) == [t EXCEPT !.del_buckets_temp = @ \cup {name}]

\* commit_bucket, third statement: CREATE TABLE .. PARTITION OF objects
CreatePartition(t, name) ==
    [t EXCEPT !.partitions = @ \cup {[table |-> PartitionTable(name),
                                      bucket |-> name]}]

\* tx.commit(): the buffered statements reach the tables in one step
TxCommitBuckets(t) == buckets \cup t.buckets
TxCommitBucketsTemp(t) == {x \in buckets_temp : x.name \notin t.del_buckets_temp}

\* faulty variant: the partition is not created with the buckets row
TxCommitPartitions_lost(t) == partitions

TxCommitPartitions(t) == partitions \cup t.partitions

CreateBucketInputs ==
    [op : {"CreateBucket"}, bucket : {"b1"} \cup NewBucketNames, key : {None},
     creds : BOOLEAN, storage_class : {None}, body : {NoBody},
     has_len : {FALSE}, upload_id : {None}, part : {0},
     access_key : AccessKeys, region : Regions]

\* entry up to the first await: the credentials check
create_bucket_call(r, inputs) ==
    /\ pc[r] = "idle"
    /\ \E i \in inputs :
        /\ req' = [req EXCEPT ![r] = i]
        /\ IF ~i.creds
           THEN Finish(r, "AccessDenied")
           ELSE Goto(r, "cb_get_user")
    /\ UNCHANGED <<db, store, now, next_uuid, locals, tx, attempts, response,
                   calls>>

\* let user = self.db.get_user_by_access_key(&creds.access_key).await?
create_bucket_get_user(r) ==
    /\ pc[r] = "cb_get_user"
    /\ \/ Finish(r, "InternalError")
       \/ /\ get_user_by_access_key(req[r].access_key) = {}
          /\ Finish(r, "NoSuchKey")
       \/ /\ get_user_by_access_key(req[r].access_key) # {}
          /\ Goto(r, "cb_get_bucket")
    /\ UNCHANGED <<db, store, now, next_uuid, req, locals, tx, attempts,
                   response, calls>>

\* faulty variant: the name is reserved without looking at buckets
create_bucket_get_bucket_unchecked(r) ==
    /\ pc[r] = "cb_get_bucket"
    /\ \/ /\ Finish(r, "InternalError")
          /\ UNCHANGED <<next_uuid, placement>>
       \/ /\ next_uuid <= MaxBlobs
          /\ placement' = [placement EXCEPT ![r] = CreateBucketLocation(r, next_uuid)]
          /\ next_uuid' = next_uuid + 1
          /\ Goto(r, "cb_create_bucket_temp")
    /\ UNCHANGED <<db, store, now, req, new_blob, fetched, upload, tx, attempts,
                   response, calls>>

\* self.db.get_bucket(..).await?, BucketAlreadyExists, the location closure
create_bucket_get_bucket(r) ==
    /\ pc[r] = "cb_get_bucket"
    /\ \/ /\ Finish(r, "InternalError")
          /\ UNCHANGED <<next_uuid, placement>>
       \/ /\ get_bucket(req[r].bucket) # {}
          /\ Finish(r, "BucketAlreadyExists")
          /\ UNCHANGED <<next_uuid, placement>>
       \/ /\ get_bucket(req[r].bucket) = {}
          /\ next_uuid <= MaxBlobs
          /\ placement' = [placement EXCEPT ![r] = CreateBucketLocation(r, next_uuid)]
          /\ next_uuid' = next_uuid + 1
          /\ Goto(r, "cb_create_bucket_temp")
    /\ UNCHANGED <<db, store, now, req, new_blob, fetched, upload, tx, attempts,
                   response, calls>>

\* self.db.create_bucket_temp(&req.input.bucket, &location).await?
create_bucket_create_bucket_temp(r) ==
    /\ pc[r] = "cb_create_bucket_temp"
    /\ \/ /\ Finish(r, "InternalError")
          /\ UNCHANGED <<buckets_temp, calls>>
       \/ /\ BucketsTempPkFree(req[r].bucket)
          /\ buckets_temp' = create_bucket_temp(req[r].bucket, placement[r])
          /\ Called(r, "db.create_bucket_temp")
          /\ Goto(r, "cb_upstream")
    /\ UNCHANGED <<buckets, buckets_gc, partitions, temp_blobs, blobs, objects,
                   blobs_gc, multiparts, store, now, next_uuid, req, locals, tx,
                   attempts, response>>

\* self.blob.create_bucket(&req.input.bucket, &location).await
create_bucket_upstream(r) ==
    /\ pc[r] = "cb_upstream"
    /\ IF StorageBucket # None
       THEN /\ Goto(r, "cb_commit_begin")
            /\ UNCHANGED <<backing_buckets, calls>>
       ELSE /\ Called(r, "blob.create_bucket")
            /\ \/ /\ backing_buckets' = backing_buckets \cup {placement[r].backend}
                  /\ Goto(r, "cb_commit_begin")
               \/ /\ UNCHANGED backing_buckets
                  /\ Goto(r, "cb_upstream_failed")
    /\ UNCHANGED <<db, backing, backing_mp, now, next_uuid, req, locals, tx,
                   attempts, response>>

\* Err(e) of create_bucket: self.db.delete_bucket_temp(..).await?; return Err(e)
create_bucket_upstream_failed(r) ==
    /\ pc[r] = "cb_upstream_failed"
    /\ \/ /\ Finish(r, "InternalError")
          /\ UNCHANGED <<buckets_temp, calls>>
       \/ /\ buckets_temp' = delete_bucket_temp(req[r].bucket)
          /\ Called(r, "db.delete_bucket_temp")
          /\ Finish(r, "BackingError")
    /\ UNCHANGED <<buckets, buckets_gc, partitions, temp_blobs, blobs, objects,
                   blobs_gc, multiparts, store, now, next_uuid, req, locals, tx,
                   attempts, response>>

(***************************************************************************)
(* PostgresDatabase::commit_bucket, as called by create_bucket.  Every     *)
(* statement is wrapped in try_!: its failure returns InternalError and    *)
(* drops the transaction, which rolls it back.                             *)
(***************************************************************************)
\* a Transaction dropped without commit is rolled back
RollbackBuckets(t) == buckets
RollbackBucketsTemp(t) == buckets_temp
RollbackPartitions(t) == partitions

\* a failed statement of commit_bucket: try_! returns, tx is dropped
CommitBucketFailed(r) ==
    /\ buckets' = RollbackBuckets(tx[r])
    /\ buckets_temp' = RollbackBucketsTemp(tx[r])
    /\ partitions' = RollbackPartitions(tx[r])
    /\ tx' = [tx EXCEPT ![r] = NoTx]
    /\ Goto(r, "cb_commit_failed")

\* self.db_conn.begin().await
commit_bucket_begin(r) ==
    /\ pc[r] = "cb_commit_begin"
    /\ \/ CommitBucketFailed(r)
       \/ /\ tx' = [tx EXCEPT ![r] = [NoTx EXCEPT !.open = TRUE]]
          /\ Goto(r, "cb_insert_bucket")
          /\ UNCHANGED <<buckets, buckets_temp, partitions>>
    /\ UNCHANGED <<buckets_gc, temp_blobs, blobs, objects, blobs_gc, multiparts,
                   store, now, next_uuid, req, locals, attempts, response, calls>>

\* INSERT INTO buckets (name, user_id, creation_date, location)
commit_bucket_insert_bucket(r) ==
    /\ pc[r] = "cb_insert_bucket"
    /\ \/ CommitBucketFailed(r)
       \/ /\ BucketsPkFree(req[r].bucket)
          /\ \E user \in get_user_by_access_key(req[r].access_key) :
                tx' = [tx EXCEPT ![r] = InsertBucket(@, req[r].bucket, user,
                                                     placement[r])]
          /\ Goto(r, "cb_delete_temp")
          /\ UNCHANGED <<buckets, buckets_temp, partitions>>
    /\ UNCHANGED <<buckets_gc, temp_blobs, blobs, objects, blobs_gc, multiparts,
                   store, now, next_uuid, req, locals, attempts, response, calls>>

\* DELETE FROM buckets_temp WHERE name = $1
commit_bucket_delete_temp(r) ==
    /\ pc[r] = "cb_delete_temp"
    /\ \/ CommitBucketFailed(r)
       \/ /\ tx' = [tx EXCEPT ![r] = DeleteBucketTemp(@, req[r].bucket)]
          /\ Goto(r, "cb_create_partition")
          /\ UNCHANGED <<buckets, buckets_temp, partitions>>
    /\ UNCHANGED <<buckets_gc, temp_blobs, blobs, objects, blobs_gc, multiparts,
                   store, now, next_uuid, req, locals, attempts, response, calls>>

\* CREATE TABLE objects_bucket_.. PARTITION OF objects FOR VALUES IN ('name')
commit_bucket_create_partition(r) ==
    /\ pc[r] = "cb_create_partition"
    /\ \/ CommitBucketFailed(r)
       \/ /\ ValidTableName(PartitionTable(req[r].bucket))
          /\ PartitionFree(req[r].bucket)
          /\ tx' = [tx EXCEPT ![r] = CreatePartition(@, req[r].bucket)]
          /\ Goto(r, "cb_commit")
          /\ UNCHANGED <<buckets, buckets_temp, partitions>>
    /\ UNCHANGED <<buckets_gc, temp_blobs, blobs, objects, blobs_gc, multiparts,
                   store, now, next_uuid, req, locals, attempts, response, calls>>

\* tx.commit().await, and the Ok(..) of create_bucket
commit_bucket_commit(r) ==
    /\ pc[r] = "cb_commit"
    /\ \/ /\ CommitBucketFailed(r)
          /\ UNCHANGED <<response, calls>>
       \/ /\ BucketsPkFree(req[r].bucket)
          /\ PartitionFree(req[r].bucket)
          /\ buckets' = TxCommitBuckets(tx[r])
          /\ buckets_temp' = TxCommitBucketsTemp(tx[r])
          /\ partitions' = TxCommitPartitions(tx[r])
          /\ tx' = [tx EXCEPT ![r] = NoTx]
          /\ Called(r, "db.commit_bucket")
          /\ response' = [response EXCEPT ![r] = [location |-> placement[r].region]]
          /\ Finish(r, "Ok")
    /\ UNCHANGED <<buckets_gc, temp_blobs, blobs, objects, blobs_gc, multiparts,
                   store, now, next_uuid, req, locals, attempts>>

\* Err(e) of commit_bucket: self.db.delete_bucket_temp(..).await?; return Err(e)
create_bucket_commit_failed(r) ==
    /\ pc[r] = "cb_commit_failed"
    /\ \/ /\ Finish(r, "InternalError")
          /\ UNCHANGED <<buckets_temp, calls>>
       \/ /\ buckets_temp' = delete_bucket_temp(req[r].bucket)
          /\ Called(r, "db.delete_bucket_temp")
          /\ Finish(r, "InternalError")
    /\ UNCHANGED <<buckets, buckets_gc, partitions, temp_blobs, blobs, objects,
                   blobs_gc, multiparts, store, now, next_uuid, req, locals, tx,
                   attempts, response>>

-----------------------------------------------------------------------------
(***************************************************************************)
(* GCWorker: drains blobs_gc.  For each queued blob it requests the        *)
(* backing store's DeleteObject(blob.id, blob.placement) and, once that    *)
(* has succeeded, delete_blob_gc.  The worker keeps no state besides the   *)
(* queue rows; a failed call changes nothing and is retried.               *)
(***************************************************************************)
\* delete_blob_gc(blob): cascade delete from blobs and blobs_gc
delete_blob_gc_blobs(id) == {b \in blobs : b.id # id}
delete_blob_gc_queue(id) == blobs_gc \ {id}

\* the payload of a queued blob at the placement its blobs row records
QueuedPayload(id) ==
    {x \in backing : /\ x.key = id
                     /\ \E b \in blobs : b.id = id /\ b.placement = x.loc}

\* the backing store's DeleteObject succeeds
gc_delete_object(id) ==
    /\ id \in blobs_gc
    /\ QueuedPayload(id) # {}
    /\ backing' = backing \ QueuedPayload(id)
    /\ UNCHANGED <<db, backing_mp, backing_buckets, now, next_uuid, pc, req, locals, tx,
                   attempts, result, response, calls>>

\* delete_blob_gc succeeds, after the backing store's delete has
gc_delete_blob_gc(id) ==
    /\ id \in blobs_gc
    /\ QueuedPayload(id) = {}
    /\ blobs' = delete_blob_gc_blobs(id)
    /\ blobs_gc' = delete_blob_gc_queue(id)
    /\ UNCHANGED <<buckets, buckets_gc, buckets_temp, partitions, temp_blobs,
                   objects, multiparts, store, now,
                   next_uuid, pc, req, locals, tx, attempts, result, response,
                   calls>>

-----------------------------------------------------------------------------
(***************************************************************************)
(* The runtime: a suspended handler may be dropped at its await; a         *)
(* finished request leaves and its slot serves the next one.               *)
(***************************************************************************)
Suspended(r) == pc[r] \notin {"idle", "done"}

\* the future is dropped: an open transaction is rolled back
Cancel(r) ==
    /\ Suspended(r)
    /\ DropTx(r)
    /\ Finish(r, "Cancelled")
    /\ UNCHANGED <<buckets, buckets_gc, buckets_temp, partitions, blobs_gc,
                   multiparts, store, now, next_uuid, req,
                   locals, attempts, response, calls>>

Retire(r) ==
    /\ pc[r] = "done"
    /\ pc' = [pc EXCEPT ![r] = "idle"]
    /\ req' = [req EXCEPT ![r] = IdleReq]
    /\ new_blob' = [new_blob EXCEPT ![r] = NoUuid]
    /\ placement' = [placement EXCEPT ![r] = NoLoc]
    /\ fetched' = [fetched EXCEPT ![r] = NoRow]
    /\ upload' = [upload EXCEPT ![r] = NoUpload]
    /\ attempts' = [attempts EXCEPT ![r] = 0]
    /\ result' = [result EXCEPT ![r] = None]
    /\ response' = [response EXCEPT ![r] = NoResponse]
    /\ calls' = [calls EXCEPT ![r] = {}]
    /\ UNCHANGED <<db, store, now, next_uuid, tx>>

-----------------------------------------------------------------------------
Init ==
    /\ buckets = {[name |-> "b1", owner |-> "u1", location |-> Loc1]}
    /\ buckets_gc = {}
    /\ buckets_temp = {}
    /\ partitions = {[table |-> PartitionTable("b1"), bucket |-> "b1"]}
    /\ temp_blobs = {}
    /\ blobs = {}
    /\ objects = {}
    /\ blobs_gc = {}
    /\ multiparts = {}
    /\ backing = {}
    /\ backing_mp = {}
    /\ backing_buckets = {Loc1.backend}
    /\ now = 0
    /\ next_uuid = 1
    /\ pc = [r \in Reqs |-> "idle"]
    /\ req = [r \in Reqs |-> IdleReq]
    /\ new_blob = [r \in Reqs |-> NoUuid]
    /\ placement = [r \in Reqs |-> NoLoc]
    /\ fetched = [r \in Reqs |-> NoRow]
    /\ upload = [r \in Reqs |-> NoUpload]
    /\ tx = [r \in Reqs |-> NoTx]
    /\ attempts = [r \in Reqs |-> 0]
    /\ result = [r \in Reqs |-> None]
    /\ response = [r \in Reqs |-> NoResponse]
    /\ calls = [r \in Reqs |-> {}]

Next ==
    \E r \in Reqs :
        \/ put_object_call(r, PutInputsOk)
        \/ put_object_get_bucket(r)
        \/ put_object_create_blob_temp(r)
        \/ put_object_upload(r)
        \/ put_object_delete_blob_temp(r)
        \/ commit_object_begin(r)
        \/ commit_object_insert_blob(r)
        \/ commit_object_insert_object(r)
        \/ commit_object_delete_temp(r)
        \/ commit_object_commit(r)
        \/ get_object_call(r, ReadInputsOk)
        \/ get_object_db(r)
        \/ get_object_fetch(r)
        \/ Cancel(r)
        \/ Retire(r)

\* concurrent requests that pass the precondition checks
Spec == Init /\ [][Next]_vars

\* one PutObject, GetObject, HeadObject or HeadBucket request at a time, with
\* every input: the precondition checks
NextPre ==
    \E r \in {"r1"} :
        \/ put_object_call(r, PutInputs)
        \/ put_object_get_bucket(r)
        \/ put_object_create_blob_temp(r)
        \/ put_object_upload(r)
        \/ put_object_delete_blob_temp(r)
        \/ commit_object_begin(r)
        \/ commit_object_insert_blob(r)
        \/ commit_object_insert_object(r)
        \/ commit_object_delete_temp(r)
        \/ commit_object_commit(r)
        \/ get_object_call(r, ReadInputs)
        \/ get_object_db(r)
        \/ get_object_fetch(r)
        \/ head_bucket_call(r, HeadBucketInputs)
        \/ head_bucket_get_bucket(r)
        \/ Cancel(r)
        \/ Retire(r)

SpecPre == Init /\ [][NextPre]_vars

\* one request at a time, of any operation and with every input
NextAll ==
    \E r \in {"r1"} :
        \/ put_object_call(r, PutInputs)
        \/ put_object_get_bucket(r)
        \/ put_object_create_blob_temp(r)
        \/ put_object_upload(r)
        \/ put_object_delete_blob_temp(r)
        \/ commit_object_begin(r)
        \/ commit_object_insert_blob(r)
        \/ commit_object_insert_object(r)
        \/ commit_object_delete_temp(r)
        \/ commit_object_commit(r)
        \/ get_object_call(r, ReadInputs)
        \/ get_object_db(r)
        \/ get_object_fetch(r)
        \/ head_bucket_call(r, HeadBucketInputs)
        \/ head_bucket_get_bucket(r)
        \/ create_multipart_upload_call(r, CreateMultipartInputs)
        \/ create_multipart_upload_get_bucket(r)
        \/ create_multipart_upload_upstream(r)
        \/ create_multipart_upload_db(r)
        \/ upload_part_call(r, UploadPartInputs)
        \/ upload_part_get_bucket(r)
        \/ upload_part_get_multipart(r)
        \/ upload_part_upstream(r)
        \/ complete_multipart_upload_call(r, CompleteMultipartInputs)
        \/ complete_multipart_upload_get_bucket(r)
        \/ complete_multipart_upload_get_multipart(r)
        \/ complete_multipart_upload_upstream(r)
        \/ complete_multipart_upload_db(r)
        \/ delete_object_call(r, DeleteObjectInputs)
        \/ delete_bucket_call(r, DeleteBucketInputs)
        \/ abort_multipart_upload_call(r, AbortMultipartInputs)
        \/ Cancel(r)
        \/ Retire(r)

SpecAll == Init /\ [][NextAll]_vars

\* one PutObject or multipart request at a time, passing the precondition
\* checks, and the GC worker
NextLive ==
    \/ \E r \in {"r1"} :
        \/ put_object_call(r, PutInputsOk)
        \/ put_object_get_bucket(r)
        \/ put_object_create_blob_temp(r)
        \/ put_object_upload(r)
        \/ put_object_delete_blob_temp(r)
        \/ commit_object_begin(r)
        \/ commit_object_insert_blob(r)
        \/ commit_object_insert_object(r)
        \/ commit_object_delete_temp(r)
        \/ commit_object_commit(r)
        \/ create_multipart_upload_call(r, CreateMultipartInputsOk)
        \/ create_multipart_upload_get_bucket(r)
        \/ create_multipart_upload_upstream(r)
        \/ create_multipart_upload_db(r)
        \/ upload_part_call(r, UploadPartInputsOk)
        \/ upload_part_get_bucket(r)
        \/ upload_part_get_multipart(r)
        \/ upload_part_upstream(r)
        \/ complete_multipart_upload_call(r, CompleteMultipartInputsOk)
        \/ complete_multipart_upload_get_bucket(r)
        \/ complete_multipart_upload_get_multipart(r)
        \/ complete_multipart_upload_upstream(r)
        \/ complete_multipart_upload_db(r)
        \/ Cancel(r)
        \/ Retire(r)
    \/ \E id \in Uuids :
        \/ gc_delete_object(id)
        \/ gc_delete_blob_gc(id)

\* the GC worker keeps running and the backing store's deletes eventually
\* succeed
GcFairness ==
    \A id \in Uuids : /\ WF_vars(gc_delete_object(id))
                      /\ WF_vars(gc_delete_blob_gc(id))

\* the runtime keeps serving requests: the system never halts while a step
\* is possible
SpecLive == Init /\ [][NextLive]_vars /\ GcFairness /\ WF_vars(NextLive)

\* a PutObject or DeleteObject request running against a multipart request,
\* both passing the precondition checks
NextMp ==
    \/ \E r \in {"r1"} :
        \/ put_object_call(r, PutInputsOk)
        \/ put_object_get_bucket(r)
        \/ put_object_create_blob_temp(r)
        \/ put_object_upload(r)
        \/ put_object_delete_blob_temp(r)
        \/ commit_object_begin(r)
        \/ commit_object_insert_blob(r)
        \/ commit_object_insert_object(r)
        \/ commit_object_delete_temp(r)
        \/ commit_object_commit(r)
        \/ delete_object_call(r, DeleteObjectInputs)
    \/ \E r \in {"r2"} :
        \/ create_multipart_upload_call(r, CreateMultipartInputsOk)
        \/ create_multipart_upload_get_bucket(r)
        \/ create_multipart_upload_upstream(r)
        \/ create_multipart_upload_db(r)
        \/ upload_part_call(r, UploadPartInputsOk)
        \/ upload_part_get_bucket(r)
        \/ upload_part_get_multipart(r)
        \/ upload_part_upstream(r)
        \/ complete_multipart_upload_call(r, CompleteMultipartInputsOk)
        \/ complete_multipart_upload_get_bucket(r)
        \/ complete_multipart_upload_get_multipart(r)
        \/ complete_multipart_upload_upstream(r)
        \/ complete_multipart_upload_db(r)
        \/ abort_multipart_upload_call(r, AbortMultipartInputs)
    \/ \E r \in Reqs :
        \/ Cancel(r)
        \/ Retire(r)

SpecMp == Init /\ [][NextMp]_vars

\* CreateBucket requests of two users that pass the credentials check, on a
\* free name and on the live one
CreateBucketRace ==
    {i \in CreateBucketInputs : /\ i.creds
                                /\ i.access_key \in {"ak1", "ak2"}
                                /\ i.bucket \in {"a-b", "b1"}
                                /\ i.region = None}

\* concurrent CreateBucket and DeleteBucket requests
NextBk ==
    \E r \in Reqs :
        \/ create_bucket_call(r, CreateBucketRace)
        \/ create_bucket_get_user(r)
        \/ create_bucket_get_bucket(r)
        \/ create_bucket_create_bucket_temp(r)
        \/ create_bucket_upstream(r)
        \/ create_bucket_upstream_failed(r)
        \/ commit_bucket_begin(r)
        \/ commit_bucket_insert_bucket(r)
        \/ commit_bucket_delete_temp(r)
        \/ commit_bucket_create_partition(r)
        \/ commit_bucket_commit(r)
        \/ create_bucket_commit_failed(r)
        \/ delete_bucket_call(r, DeleteBucketInputs)
        \/ Cancel(r)
        \/ Retire(r)

SpecBk == Init /\ [][NextBk]_vars

\* one CreateBucket or DeleteBucket request at a time, with every input
NextBkSeq ==
    \E r \in {"r1"} :
        \/ create_bucket_call(r, CreateBucketInputs)
        \/ create_bucket_get_user(r)
        \/ create_bucket_get_bucket(r)
        \/ create_bucket_create_bucket_temp(r)
        \/ create_bucket_upstream(r)
        \/ create_bucket_upstream_failed(r)
        \/ commit_bucket_begin(r)
        \/ commit_bucket_insert_bucket(r)
        \/ commit_bucket_delete_temp(r)
        \/ commit_bucket_create_partition(r)
        \/ commit_bucket_commit(r)
        \/ create_bucket_commit_failed(r)
        \/ delete_bucket_call(r, DeleteBucketInputs)
        \/ Cancel(r)
        \/ Retire(r)

SpecBkSeq == Init /\ [][NextBkSeq]_vars

\* UploadPart requests with every bucket, upload id, part number and
\* credentials, the parts carrying one payload
UploadPartInputsUp == {i \in UploadPartInputs : i.body = <<"a">>}

\* one multipart request at a time, with every bucket, key, upload id, part
\* number, storage class and credentials
NextUp ==
    \E r \in {"r1"} :
        \/ create_multipart_upload_call(r, CreateMultipartInputs)
        \/ create_multipart_upload_get_bucket(r)
        \/ create_multipart_upload_upstream(r)
        \/ create_multipart_upload_db(r)
        \/ upload_part_call(r, UploadPartInputsUp)
        \/ upload_part_get_bucket(r)
        \/ upload_part_get_multipart(r)
        \/ upload_part_upstream(r)
        \/ complete_multipart_upload_call(r, CompleteMultipartInputs)
        \/ complete_multipart_upload_get_bucket(r)
        \/ complete_multipart_upload_get_multipart(r)
        \/ complete_multipart_upload_upstream(r)
        \/ complete_multipart_upload_db(r)
        \/ abort_multipart_upload_call(r, AbortMultipartInputs)
        \/ Cancel(r)
        \/ Retire(r)

SpecUp == Init /\ [][NextUp]_vars

\* one PutObject that passes the precondition checks or one listing request
\* with every input at a time
NextList ==
    \E r \in {"r1"} :
        \/ put_object_call(r, PutInputsOk)
        \/ put_object_get_bucket(r)
        \/ put_object_create_blob_temp(r)
        \/ put_object_upload(r)
        \/ put_object_delete_blob_temp(r)
        \/ commit_object_begin(r)
        \/ commit_object_insert_blob(r)
        \/ commit_object_insert_object(r)
        \/ commit_object_delete_temp(r)
        \/ commit_object_commit(r)
        \/ list_objects_call(r, ListObjectsInputs)
        \/ list_objects_v2_call(r, ListObjectsV2Inputs)
        \/ Cancel(r)
        \/ Retire(r)

SpecList == Init /\ [][NextList]_vars

\* requests of one payload that pass the precondition checks
PutInputsGc == {i \in PutInputsOk : i.body = <<"a">> /\ i.has_len}
UploadPartInputsGc == {i \in UploadPartInputsOk : i.body = <<"a">> /\ i.part = 1}

\* a PutObject, GetObject or DeleteObject request running against a
\* multipart request and the GC worker
NextGc ==
    \/ \E r \in {"r1"} :
        \/ put_object_call(r, PutInputsGc)
        \/ put_object_get_bucket(r)
        \/ put_object_create_blob_temp(r)
        \/ put_object_upload(r)
        \/ put_object_delete_blob_temp(r)
        \/ commit_object_begin(r)
        \/ commit_object_insert_blob(r)
        \/ commit_object_insert_object(r)
        \/ commit_object_delete_temp(r)
        \/ commit_object_commit(r)
        \/ get_object_call(r, ReadInputsOk)
        \/ get_object_db(r)
        \/ get_object_fetch(r)
        \/ delete_object_call(r, DeleteObjectInputs)
    \/ \E r \in {"r2"} :
        \/ create_multipart_upload_call(r, CreateMultipartInputsOk)
        \/ create_multipart_upload_get_bucket(r)
        \/ create_multipart_upload_upstream(r)
        \/ create_multipart_upload_db(r)
        \/ upload_part_call(r, UploadPartInputsGc)
        \/ upload_part_get_bucket(r)
        \/ upload_part_get_multipart(r)
        \/ upload_part_upstream(r)
        \/ complete_multipart_upload_call(r, CompleteMultipartInputsOk)
        \/ complete_multipart_upload_get_bucket(r)
        \/ complete_multipart_upload_get_multipart(r)
        \/ complete_multipart_upload_upstream(r)
        \/ complete_multipart_upload_db(r)
    \/ \E r \in Reqs :
        \/ Cancel(r)
        \/ Retire(r)
    \/ \E id \in Uuids :
        \/ gc_delete_object(id)
        \/ gc_delete_blob_gc(id)

SpecGc == Init /\ [][NextGc]_vars

-----------------------------------------------------------------------------
(***************************************************************************)
(* DeleteBucket as spec 4.1 and 4.2 describe it.  RadosStore::delete_bucket *)
(* is todo!() and PostgresDatabase has no delete_bucket, so these steps     *)
(* come from the specification; they are run only by SpecRecreate.          *)
(***************************************************************************)
\* DELETE bucket, entry
delete_bucket_spec_call(r, inputs) ==
    /\ pc[r] = "idle"
    /\ \E i \in inputs : req' = [req EXCEPT ![r] = i]
    /\ Goto(r, "db_delete_bucket")
    /\ UNCHANGED <<db, store, now, next_uuid, locals, tx, attempts, response,
                   calls>>

\* DELETE bucket, step 1: delete_bucket(name, location) in one transaction:
\* the partition is empty or BucketNotEmpty, the buckets row goes,
\* (gc_job_id, location) is queued in buckets_gc, the partition is dropped
delete_bucket_db(r) ==
    /\ pc[r] = "db_delete_bucket"
    /\ \/ /\ Finish(r, "InternalError")
          /\ UNCHANGED <<buckets, buckets_gc, partitions, placement, calls>>
       \/ /\ get_bucket(req[r].bucket) = {}
          /\ Finish(r, "NoSuchBucket")
          /\ UNCHANGED <<buckets, buckets_gc, partitions, placement, calls>>
       \/ /\ get_bucket(req[r].bucket) # {}
          /\ \E o \in objects : o.bucket = req[r].bucket
          /\ Finish(r, "BucketNotEmpty")
          /\ UNCHANGED <<buckets, buckets_gc, partitions, placement, calls>>
       \/ \E b \in get_bucket(req[r].bucket) :
          /\ ~ \E o \in objects : o.bucket = req[r].bucket
          /\ buckets' = {x \in buckets : x.name # b.name}
          /\ buckets_gc' = buckets_gc \cup
                {[id |-> b.location.backend, location |-> b.location]}
          /\ partitions' = {p \in partitions : p.bucket # b.name}
          /\ placement' = [placement EXCEPT ![r] = b.location]
          /\ Called(r, "db.delete_bucket")
          /\ Goto(r, "db_upstream")
    /\ UNCHANGED <<buckets_temp, temp_blobs, blobs, objects, blobs_gc,
                   multiparts, store, now, next_uuid, req, new_blob, fetched,
                   upload, tx, attempts, response>>

\* DELETE bucket, steps 2 and 3: best-effort DeleteBucket on the backing
\* store, delete_bucket_complete on success, success to the client always
delete_bucket_upstream(r) ==
    /\ pc[r] = "db_upstream"
    /\ Called(r, "blob.delete_bucket")
    /\ \/ UNCHANGED <<backing_buckets, buckets_gc>>
       \/ /\ ~ \E x \in backing \cup backing_mp : x.loc = placement[r]
          /\ backing_buckets' = backing_buckets \ {placement[r].backend}
          /\ \/ buckets_gc' = {g \in buckets_gc : g.location # placement[r]}
             \/ UNCHANGED buckets_gc
    /\ Finish(r, "Ok")
    /\ UNCHANGED <<buckets, buckets_temp, partitions, temp_blobs, blobs,
                   objects, blobs_gc, multiparts, backing, backing_mp, now,
                   next_uuid, req, locals, tx, attempts, response>>

\* one request at a time: a multipart upload into b1, and b1 deleted and
\* created again
NextRecreate ==
    \E r \in {"r1"} :
        \/ create_multipart_upload_call(r, CreateMultipartInputsOk)
        \/ create_multipart_upload_get_bucket(r)
        \/ create_multipart_upload_upstream(r)
        \/ create_multipart_upload_db(r)
        \/ upload_part_call(r, UploadPartInputsGc)
        \/ upload_part_get_bucket(r)
        \/ upload_part_get_multipart(r)
        \/ upload_part_upstream(r)
        \/ complete_multipart_upload_call(r, CompleteMultipartInputsOk)
        \/ complete_multipart_upload_get_bucket(r)
        \/ complete_multipart_upload_get_multipart(r)
        \/ complete_multipart_upload_upstream(r)
        \/ complete_multipart_upload_db(r)
        \/ create_bucket_call(r, {i \in CreateBucketRace : i.bucket = "b1"})
        \/ create_bucket_get_user(r)
        \/ create_bucket_get_bucket(r)
        \/ create_bucket_create_bucket_temp(r)
        \/ create_bucket_upstream(r)
        \/ create_bucket_upstream_failed(r)
        \/ commit_bucket_begin(r)
        \/ commit_bucket_insert_bucket(r)
        \/ commit_bucket_delete_temp(r)
        \/ commit_bucket_create_partition(r)
        \/ commit_bucket_commit(r)
        \/ create_bucket_commit_failed(r)
        \/ delete_bucket_spec_call(r, {i \in DeleteBucketInputs : i.bucket = "b1"})
        \/ delete_bucket_db(r)
        \/ delete_bucket_upstream(r)
        \/ Cancel(r)
        \/ Retire(r)

SpecRecreate == Init /\ [][NextRecreate]_vars

-----------------------------------------------------------------------------
(***************************************************************************)
(* Properties of the PutObject pipeline                                    *)
(***************************************************************************)
Ids(rows) == {x.id : x \in rows}
IsPut(r) == req[r].op = "PutObject"
Returned(r) == pc[r] = "done" /\ result[r] # "Cancelled"
RowsOf(b, k) == {o \in objects : o.bucket = b /\ o.oid = k}
Uploaded(id) == \E x \in backing : x.key = id
Committed(r) == "db.commit_object" \in calls[r]

\* C1: PUT atomicity.  Every row get_object can return references a blob
\* with a blobs row whose payload is complete in the backing store at the
\* blob's placement, and a PutObject that has not committed commit_object
\* has no objects row and no blobs row.
C1_PutAtomicity ==
    /\ \A b \in BucketNames, k \in Keys : \A row \in get_object(b, k) :
          /\ row.blob # {}
          /\ \A bl \in row.blob :
                \E x \in backing : /\ x.key = bl.id
                                   /\ x.loc = bl.placement
                                   /\ bl.etag = UpstreamEtag(x.body)
                                   /\ bl.size = ContentLength(x.body)
    /\ \A r \in Reqs :
          (IsPut(r) /\ new_blob[r] # NoUuid /\ ~Committed(r)) =>
             /\ \A o \in objects : o.blob # new_blob[r]
             /\ new_blob[r] \notin Ids(blobs)

\* a committed object is readable while another PutObject is about to commit
C1_Witness ==
    \E r \in Reqs, b \in BucketNames, k \in Keys :
        /\ pc[r] = "commit_commit"
        /\ get_object(b, k) # {}

\* C2: the objects table holds at most one row for each (bucket, oid).
C2_AtMostOneRow ==
    \A b \in BucketNames, k \in Keys : Cardinality(RowsOf(b, k)) <= 1

\* C3: every row of blobs is referenced by at least one objects row or has
\* its id in blobs_gc, whatever PutObject, CompleteMultipartUpload and
\* DeleteObject requests have run.
C3_BlobsReferenced ==
    \A b \in blobs : (\E o \in objects : o.blob = b.id) \/ b.id \in blobs_gc

\* a completed multipart upload has supplanted an object written by
\* PutObject, whose blob is now unreferenced and queued, and a DeleteObject
\* request has run
C3_Witness ==
    /\ \E b \in blobs : /\ b.id \in blobs_gc
                        /\ \A o \in objects : o.blob # b.id
    /\ \E o \in objects : o.blob \notin blobs_gc
    /\ \E r \in Reqs : req[r].op = "DeleteObject" /\ pc[r] = "done"

\* C4: a commit_object that commits for a (bucket, oid) that already has an
\* Object row deletes the old row and inserts its blob id into blobs_gc in
\* the same transaction; with no prior row it adds nothing to blobs_gc.
C4_CommitSupplants ==
    [][\A r \in Reqs :
          (pc[r] = "commit_commit" /\ pc'[r] = "done" /\ result'[r] = "Ok") =>
             /\ \A o \in RowsOf(req[r].bucket, req[r].key) :
                   o \notin objects' /\ o.blob \in blobs_gc'
             /\ (RowsOf(req[r].bucket, req[r].key) = {} => blobs_gc' = blobs_gc)
      ]_vars

\* C5: no untracked payload.  Every backing-store object written by
\* PutObject has its key in temp_blobs, blobs or blobs_gc; the temp_blobs
\* row exists while the upload runs; a temp_blobs row is removed only by
\* delete_blob_temp after a failed upload or by the commit of commit_object.
C5_Tracked ==
    /\ \A x \in backing : x.key \in Ids(temp_blobs) \cup Ids(blobs) \cup blobs_gc
    /\ \A r \in Reqs : pc[r] = "put_upload" => new_blob[r] \in Ids(temp_blobs)

C5_TempRemoval ==
    \A t \in temp_blobs :
        t \notin temp_blobs' =>
            \E r \in Reqs :
                /\ new_blob[r] = t.id
                /\ \/ pc[r] = "put_delete_blob_temp" /\ ~Uploaded(t.id)
                   \/ pc[r] = "commit_commit" /\ t.id \in Ids(blobs')

C5_NoUntrackedPayload == []C5_Tracked /\ [][C5_TempRemoval]_vars

\* a PutObject was dropped after its upload: the payload is tracked by the
\* temp_blobs row alone
C5_Witness ==
    \E r \in Reqs :
        /\ IsPut(r) /\ result[r] = "Cancelled"
        /\ Uploaded(new_blob[r])
        /\ new_blob[r] \in Ids(temp_blobs)
        /\ new_blob[r] \notin Ids(blobs)

\* C6: a PutObject dropped before its transaction commits leaves objects and
\* blobs as they were, every get_object answer included, and has no row of
\* its own in either table.
C6_CancelStep ==
    \A r \in Reqs :
        (IsPut(r) /\ Suspended(r) /\ result'[r] = "Cancelled") =>
            /\ objects' = objects
            /\ blobs' = blobs
            /\ \A b \in BucketNames, k \in Keys : get_object(b, k)' = get_object(b, k)

C6_CancelledRows ==
    \A r \in Reqs :
        (IsPut(r) /\ result[r] = "Cancelled") =>
            /\ \A o \in objects : o.blob # new_blob[r]
            /\ new_blob[r] \notin Ids(blobs)

C6_CancelKeepsState == []C6_CancelledRows /\ [][C6_CancelStep]_vars

\* a PutObject was dropped inside its transaction, after both inserts, while
\* the key holds a committed object
C6_Witness ==
    \E r \in Reqs :
        /\ IsPut(r) /\ result[r] = "Cancelled"
        /\ attempts[r] = 1
        /\ Uploaded(new_blob[r])
        /\ get_object(req[r].bucket, req[r].key) # {}

\* the backing upload of r failed and r has returned
UploadFailedReturned(r) ==
    /\ IsPut(r) /\ Returned(r)
    /\ "blob.put_object" \in calls[r]
    /\ ~Uploaded(new_blob[r])

\* C7: when the backing upload of a PutObject fails, the gateway deletes the
\* temp_blobs row and returns the backing store's error; afterwards there
\* is no temp_blobs row for the blob and objects and blobs are unchanged.
C7_UploadFailure ==
    \A r \in Reqs :
        UploadFailedReturned(r) =>
            /\ result[r] = "BackingError"
            /\ new_blob[r] \notin Ids(temp_blobs)
            /\ \A o \in objects : o.blob # new_blob[r]
            /\ new_blob[r] \notin Ids(blobs)

\* a PutObject whose storage class is present and not STANDARD
BadStorageClass(i) ==
    i.op = "PutObject" /\ i.storage_class \notin {None, "STANDARD"}

\* C8: a PutObject whose storage class is present and not STANDARD returns
\* InvalidStorageClass before any state is touched: it makes no temp_blobs
\* row and no backing-store call, allocates no blob, and the step that
\* answers it leaves every table and the backing store unchanged.
C8_Rejected ==
    \A r \in Reqs :
        BadStorageClass(req[r]) =>
            /\ pc[r] = "done"
            /\ result[r] = "InvalidStorageClass"
            /\ calls[r] = {}
            /\ new_blob[r] = NoUuid

C8_RejectStep ==
    \A r \in Reqs :
        (pc[r] = "idle" /\ BadStorageClass(req'[r])) =>
            /\ db' = db
            /\ store' = store

C8_InvalidStorageClass == []C8_Rejected /\ [][C8_RejectStep]_vars

\* a GLACIER PutObject was rejected while the key holds a committed object
C8_Witness ==
    \E r \in Reqs :
        /\ BadStorageClass(req[r])
        /\ req[r].storage_class = "GLACIER"
        /\ result[r] = "InvalidStorageClass"
        /\ objects # {} /\ blobs # {} /\ backing # {}

\* the operations of the service that are modelled
C9_Operations ==
    {"PutObject", "GetObject", "HeadObject", "HeadBucket",
     "CreateMultipartUpload", "UploadPart", "CompleteMultipartUpload"}

\* C9: every operation invoked without credentials returns AccessDenied,
\* whatever the bucket or key, and makes no metadata write and no
\* backing-store call (a database failure met before the answer aside).
C9_NoCredentials ==
    \A r \in Reqs :
        (/\ req[r].op \in C9_Operations
         /\ ~req[r].creds
         /\ Returned(r)
         /\ result[r] # "InternalError")
            => (result[r] = "AccessDenied" /\ calls[r] = {})

\* C10: commit_object is re-executed on transient SQL errors; InternalError
\* reaches the client only when the tenth attempt has failed.
C10_TenAttempts ==
    \A r \in Reqs :
        (IsPut(r) /\ Returned(r) /\ attempts[r] > 0 /\ result[r] = "InternalError")
            => attempts[r] = 10

-----------------------------------------------------------------------------
(***************************************************************************)
(* Properties of commit_object: failed attempts and commit order           *)
(***************************************************************************)
\* the awaits of commit_object
CommitSteps ==
    {"commit_begin", "commit_insert_blob", "commit_insert_object",
     "commit_delete_temp", "commit_commit"}

\* r's attempt of commit_object fails in this step
AttemptFails(r) ==
    pc[r] \in CommitSteps /\ pc'[r] = "done" /\ result'[r] = "InternalError"

\* r's commit_object commits in this step
Commits(r) ==
    pc[r] = "commit_commit" /\ pc'[r] = "done" /\ result'[r] = "Ok"

C11_FailStep ==
    \A r \in Reqs :
        AttemptFails(r) =>
            /\ blobs' = blobs
            /\ objects' = objects
            /\ new_blob[r] \in Ids(temp_blobs')
            /\ tx'[r] = NoTx

C11_OneBlobRow ==
    \A id \in Uuids : Cardinality({b \in blobs : b.id = id}) <= 1

\* C11: a failed attempt of commit_object leaves nothing behind.  Whichever
\* statement fails, the transaction is rolled back: blobs and objects are
\* unchanged, the temp_blobs row of the blob is still present, and blobs
\* never holds two rows for one blob id.
C11_FailedAttempt == []C11_OneBlobRow /\ [][C11_FailStep]_vars

\* commit_object failed for a PutObject whose payload is uploaded, while the
\* key holds an object committed by another request
C11_Witness ==
    \E r \in Reqs :
        /\ IsPut(r) /\ result[r] = "InternalError"
        /\ attempts[r] = 1
        /\ Uploaded(new_blob[r])
        /\ new_blob[r] \in Ids(temp_blobs)
        /\ RowsOf(req[r].bucket, req[r].key) # {}

\* C12: for each (bucket, key) the last_modified values of successive
\* committed commit_object transactions never decrease in commit order.
C12_CommitOrder ==
    [][\A r \in Reqs :
          Commits(r) =>
             \A o \in RowsOf(req[r].bucket, req[r].key) :
                o.last_modified <= tx[r].ts
      ]_vars

\* C13: last committed writer wins.  Once a commit_object has committed,
\* get_object of the key answers with the blob of that request until the
\* next commit, whatever the order of the uploads.
C13_LastWriterWins ==
    [][\A r \in Reqs :
          Commits(r) =>
             \A row \in get_object(req[r].bucket, req[r].key)' :
                row.object.blob = new_blob[r]
      ]_vars

-----------------------------------------------------------------------------
(***************************************************************************)
(* Properties of GetObject and HeadObject                                  *)
(***************************************************************************)
IsRead(r) == req[r].op \in {"GetObject", "HeadObject"}

\* C14: GetObject and HeadObject fetch the payload from the backing store
\* under key blob.id at blob.placement and answer with the etag of the blobs
\* row and the last_modified of the objects row; the backing store's own
\* timestamp never reaches the client.
C14_ReadOverrides ==
    \A r \in Reqs :
        (IsRead(r) /\ pc[r] = "done" /\ result[r] = "Ok") =>
            /\ fetched[r].object \in objects
            /\ fetched[r].blob \in blobs
            /\ fetched[r].object.blob = fetched[r].blob.id
            /\ response[r].e_tag = fetched[r].blob.etag
            /\ response[r].last_modified = fetched[r].object.last_modified
            /\ response[r].last_modified # UpstreamLastModified
            /\ \E x \in backing :
                  /\ x.key = fetched[r].blob.id
                  /\ x.loc = fetched[r].blob.placement
                  /\ req[r].op = "GetObject" => response[r].body = x.body
            /\ calls[r] = {IF req[r].op = "GetObject" THEN "blob.get_object"
                                                      ELSE "blob.head_object"}

\* a HeadObject and a GetObject have both answered for a key that holds two
\* rows
C14_Witness ==
    /\ Cardinality(objects) = 2
    /\ \E r \in Reqs : req[r].op = "HeadObject" /\ result[r] = "Ok"
    /\ \E r \in Reqs : /\ req[r].op = "GetObject" /\ result[r] = "Ok"
                       /\ response[r].body \in Bodies

\* C15: round trip.  When PutObject(K, V) has succeeded and nothing is
\* written to K afterwards, a read of K finds a blob whose backing payload is
\* exactly V, whose etag is the etag of the PutObject response and whose
\* recorded size is the content-length of the PUT.
C15_RoundTrip ==
    [][\A r \in Reqs :
          Commits(r) =>
             /\ get_object(req[r].bucket, req[r].key)' # {}
             /\ \A row \in get_object(req[r].bucket, req[r].key)' :
                   /\ row.blob # {}
                   /\ \A bl \in row.blob :
                         /\ bl.etag = response'[r].e_tag
                         /\ bl.size = ContentLength(req[r].body)
                         /\ \E x \in backing : /\ x.key = bl.id
                                              /\ x.loc = bl.placement
                                              /\ x.body = req[r].body
      ]_vars

-----------------------------------------------------------------------------
(***************************************************************************)
(* Reclamation                                                             *)
(***************************************************************************)
\* the blob of an object that a later PutObject of the same key supplanted
SupplantedBlob(id) ==
    \E o \in objects, p \in objects :
        /\ o.blob = id
        /\ p.bucket = o.bucket /\ p.oid = o.oid
        /\ p.last_modified > o.last_modified

\* the payload is gone from the backing store and so are the rows
Reclaimed(id) ==
    ~Uploaded(id) /\ id \notin Ids(blobs) /\ id \notin blobs_gc

\* C16: whenever a PutObject supplants an existing object, the supplanted
\* blob is eventually deleted from the backing store and its rows removed
\* from blobs and blobs_gc, the GC worker running and the backing store's
\* deletes succeeding.
C16_Reclamation ==
    \A id \in Uuids : SupplantedBlob(id) ~> Reclaimed(id)

-----------------------------------------------------------------------------
(***************************************************************************)
(* DeleteObject and DeleteBucket                                           *)
(***************************************************************************)
\* r has served a request of the operation
Served(r, op) == req[r].op = op /\ pc[r] = "done" /\ result[r] # "Cancelled"

\* the rows of objects of a bucket (its partition)
Partition(b) == {o \in objects : o.bucket = b}

C18_DeleteQueues ==
    [][\A r \in Reqs, b \in BucketNames, k \in Keys :
          (/\ pc[r] # "done" /\ Served(r, "DeleteObject")'
           /\ req'[r].bucket = b /\ req'[r].key = k) =>
             /\ result'[r] = "Ok"
             /\ RowsOf(b, k)' = {}
             /\ \A o \in RowsOf(b, k) :
                   o.blob \in blobs_gc' \/ o.blob \notin Ids(blobs')
      ]_vars

\* C19: DeleteBucket on a bucket that holds an Object row returns
\* BucketNotEmpty and leaves the buckets row, the objects and buckets_gc
\* unchanged.
C19_BucketNotEmpty ==
    [][\A r \in Reqs :
          (/\ pc[r] # "done" /\ Served(r, "DeleteBucket")'
           /\ Partition(req'[r].bucket) # {}) =>
             /\ result'[r] = "BucketNotEmpty"
             /\ buckets' = buckets
             /\ objects' = objects
             /\ buckets_gc' = buckets_gc
      ]_vars

\* C20: DeleteBucket on an empty live bucket removes the buckets row and
\* adds exactly one buckets_gc row carrying the bucket's location, in one
\* step, and returns success.
C20_DeleteEmptyBucket ==
    [][\A r \in Reqs, name \in BucketNames :
          (/\ pc[r] # "done" /\ Served(r, "DeleteBucket")'
           /\ req'[r].bucket = name
           /\ get_bucket(name) # {}
           /\ Partition(name) = {}) =>
             /\ result'[r] = "Ok"
             /\ get_bucket(name)' = {}
             /\ \E g \in buckets_gc' :
                   /\ buckets_gc' = buckets_gc \cup {g}
                   /\ g \notin buckets_gc
                   /\ \A b \in get_bucket(name) : g.location = b.location
      ]_vars

-----------------------------------------------------------------------------
(***************************************************************************)
(* Bucket lifecycle                                                        *)
(***************************************************************************)
AllBucketNames == BucketNames \cup NewBucketNames
IsCreateBucket(r) == req[r].op = "CreateBucket"
LiveRows(name) == {b \in buckets : b.name = name}
PartitionsOf(name) == {p \in partitions : p.bucket = name}
Reserved(name) == {t \in buckets_temp : t.name = name}

\* C21: in every reachable state a partition of objects for bucket B exists
\* if and only if buckets holds a row for B, and B has no more than one
\* partition, whatever CreateBucket and DeleteBucket requests ran, failed or
\* were cancelled, concurrently or not.
C21_PartitionIffBucket ==
    \A name \in AllBucketNames :
        /\ (PartitionsOf(name) # {}) <=> (LiveRows(name) # {})
        /\ Cardinality(PartitionsOf(name)) <= 1

\* a bucket was created, with its partition, and a DeleteBucket request for
\* it was served
C21_Witness ==
    \E r \in Reqs, q \in Reqs :
        /\ Served(r, "CreateBucket") /\ result[r] = "Ok"
        /\ Served(q, "DeleteBucket") /\ req[q].bucket = req[r].bucket
        /\ PartitionsOf(req[r].bucket) # {}
        /\ LiveRows(req[r].bucket) # {}

\* a CreateBucket request that returned after the backing store created its
\* bucket and commit_bucket failed
CommitBucketFailedReturned(r) ==
    /\ IsCreateBucket(r)
    /\ Returned(r)
    /\ "blob.create_bucket" \in calls[r]
    /\ placement[r].backend \in backing_buckets
    /\ "db.commit_bucket" \notin calls[r]

\* C22: when commit_bucket fails at any of its statements or at its commit,
\* no buckets row and no partition for the name exist afterwards, and
\* CreateBucket returns the error with the buckets_temp reservation removed.
C22_CommitBucketAllOrNothing ==
    \A r \in Reqs :
        CommitBucketFailedReturned(r) =>
            /\ LiveRows(req[r].bucket) = {}
            /\ PartitionsOf(req[r].bucket) = {}
            /\ result[r] = "InternalError"
            /\ Reserved(req[r].bucket) = {}

\* C23: of concurrent CreateBucket requests on one name at most one returns
\* success, buckets holds at most one row for a name, and the row of a name
\* a request created carries that request's user and location.
C23_OneCreator ==
    /\ \A b \in buckets, c \in buckets : b.name = c.name => b = c
    /\ \A r \in Reqs, q \in Reqs :
          (/\ r # q
           /\ Served(r, "CreateBucket") /\ result[r] = "Ok"
           /\ Served(q, "CreateBucket") /\ result[q] = "Ok") =>
              req[r].bucket # req[q].bucket
    /\ \A r \in Reqs :
          (Served(r, "CreateBucket") /\ result[r] = "Ok") =>
              \E b \in LiveRows(req[r].bucket) :
                 /\ b.owner \in get_user_by_access_key(req[r].access_key)
                 /\ b.location = placement[r]

\* one request created the bucket; the other, of another user, had reserved
\* the same name, failed in commit_bucket and dropped its reservation
C23_Witness ==
    \E r \in Reqs, q \in Reqs :
        /\ Served(r, "CreateBucket") /\ result[r] = "Ok"
        /\ Served(q, "CreateBucket") /\ result[q] = "InternalError"
        /\ req[q].bucket = req[r].bucket
        /\ req[q].access_key # req[r].access_key
        /\ "db.delete_bucket_temp" \in calls[q]

\* C24: once a DeleteBucket of a live, empty bucket has been served, no
\* buckets row, no buckets_temp row and no partition is left for the name,
\* so that a CreateBucket of the same name succeeds again.
C24_Recreate ==
    [][\A r \in Reqs, name \in NewBucketNames :
          (/\ pc[r] # "done" /\ Served(r, "DeleteBucket")'
           /\ req'[r].bucket = name
           /\ LiveRows(name) # {}
           /\ Partition(name) = {}) =>
             /\ LiveRows(name)' = {}
             /\ Reserved(name)' = {}
             /\ PartitionsOf(name)' = {}
      ]_vars

\* a CreateBucket request that was answered BucketAlreadyExists made no
\* state-changing call, and the name is live
C25_Rejected ==
    \A r \in Reqs :
        (Served(r, "CreateBucket") /\ result[r] = "BucketAlreadyExists") =>
            /\ calls[r] = {}
            /\ LiveRows(req[r].bucket) # {}

\* the step of create_bucket that reads buckets and finds a live row for the
\* name answers BucketAlreadyExists (a failure of the read aside) and leaves
\* every table and the backing store as they are
C25_RejectStep ==
    \A r \in Reqs, name \in AllBucketNames :
        (/\ pc[r] = "cb_get_bucket" /\ pc'[r] # "cb_get_bucket"
         /\ req[r].bucket = name
         /\ LiveRows(name) # {}
         /\ result'[r] \notin {"InternalError", "Cancelled"}) =>
            /\ result'[r] = "BucketAlreadyExists"
            /\ pc'[r] = "done"
            /\ db' = db
            /\ store' = store
            /\ calls'[r] = {}

\* C25: CreateBucket for a name that has a live row in buckets returns
\* BucketAlreadyExists and changes nothing: no buckets_temp row is written,
\* no backing-store bucket is created, the live row keeps its owner and
\* location.
C25_BucketAlreadyExists == []C25_Rejected /\ [][C25_RejectStep]_vars

\* a request was refused the name that the other request had created
C25_Witness ==
    \E r \in Reqs, q \in Reqs :
        /\ Served(r, "CreateBucket") /\ result[r] = "BucketAlreadyExists"
        /\ Served(q, "CreateBucket") /\ result[q] = "Ok"
        /\ req[q].bucket = req[r].bucket
        /\ buckets_temp = {}

-----------------------------------------------------------------------------
(***************************************************************************)
(* Multipart uploads                                                       *)
(***************************************************************************)
\* C26: a CompleteMultipartUpload that succeeds leaves no row of the upload
\* in active_multipart_uploads and makes GetObject of the key read the object
\* bound to the blob id the upload was given at creation, its blobs row
\* present; one that does not succeed at its database step leaves blobs,
\* objects and active_multipart_uploads as they were.
C26_CompleteMultipart ==
    [][\A r \in Reqs, b \in BucketNames, k \in Keys, u \in UploadIds :
          (/\ pc[r] = "cmp_db" /\ pc'[r] = "done"
           /\ req[r].bucket = b /\ req[r].key = k /\ req[r].upload_id = u) =>
             IF result'[r] = "Ok"
             THEN /\ get_multipart(b, k, u)' = {}
                  /\ u = UploadIdOf(upload[r].blob_id)
                  /\ get_object(b, k)' # {}
                  /\ \A x \in get_object(b, k)' :
                        /\ x.object.blob = upload[r].blob_id
                        /\ x.blob # {}
             ELSE /\ blobs' = blobs
                  /\ objects' = objects
                  /\ multiparts' = multiparts
      ]_vars

\* a second upload of the key was completed after a first one: its row is
\* gone and the key reads its blob
C26_Witness ==
    \E r \in Reqs :
        /\ Served(r, "CompleteMultipartUpload") /\ result[r] = "Ok"
        /\ get_multipart(req[r].bucket, req[r].key, req[r].upload_id) = {}
        /\ blobs_gc # {}
        /\ \E x \in get_object(req[r].bucket, req[r].key) :
              x.object.blob = upload[r].blob_id

\* C27: the size in the blobs row of an object is the number of bytes of the
\* backing object that holds its payload, for an object assembled by
\* CompleteMultipartUpload as for any other.
C27_MultipartSize ==
    \A bl \in blobs, x \in backing :
        (x.key = bl.id /\ x.loc = bl.placement) =>
            bl.size = ContentLength(x.body)

IsPartOrComplete(r) == req[r].op \in {"UploadPart", "CompleteMultipartUpload"}

\* an UploadPart or CompleteMultipartUpload request that was answered
\* NoSuchUpload made no call; one that forwards to the backing store holds
\* the row of its (bucket, oid, upload_id)
C28_Lookup ==
    \A r \in Reqs :
        /\ (IsPartOrComplete(r) /\ Returned(r) /\ result[r] = "NoSuchUpload") =>
              calls[r] = {}
        /\ pc[r] \in {"up_upstream", "cmp_upstream"} =>
              /\ upload[r].bucket = req[r].bucket
              /\ upload[r].oid = req[r].key
              /\ upload[r].upload_id = req[r].upload_id

\* the lookup step of a request whose (bucket, oid, upload_id) has no row
\* answers NoSuchUpload (a failure of the read aside) and leaves every
\* table and the backing store as they are
C28_MissStep ==
    \A r \in Reqs :
        (/\ pc[r] \in {"up_get_multipart", "cmp_get_multipart"}
         /\ pc'[r] # pc[r]
         /\ ~ \E m \in multiparts : /\ m.bucket = req[r].bucket
                                    /\ m.oid = req[r].key
                                    /\ m.upload_id = req[r].upload_id
         /\ result'[r] \notin {"InternalError", "Cancelled"}) =>
            /\ result'[r] = "NoSuchUpload"
            /\ pc'[r] = "done"
            /\ db' = db
            /\ store' = store
            /\ calls'[r] = {}

\* C28: UploadPart and CompleteMultipartUpload look the upload up by
\* (bucket, oid, upload_id); when there is no such row they return
\* NoSuchUpload, forward nothing to the backing store and change no
\* metadata row.
C28_NoSuchUpload == []C28_Lookup /\ [][C28_MissStep]_vars

\* an upload is open and a request naming another upload id was refused
C28_Witness ==
    \E r \in Reqs :
        /\ IsPartOrComplete(r) /\ Returned(r) /\ result[r] = "NoSuchUpload"
        /\ \E m \in multiparts : /\ m.bucket = req[r].bucket
                                 /\ m.oid = req[r].key
                                 /\ m.upload_id # req[r].upload_id

\* C29: AbortMultipartUpload of an upload that has a row returns success
\* with the row gone from active_multipart_uploads and the upload gone from
\* the backing store, so that a later UploadPart or CompleteMultipartUpload
\* of that id finds no row.
C29_Abort ==
    [][\A r \in Reqs, b \in BucketNames, k \in Keys, u \in UploadIds :
          (/\ pc[r] # "done" /\ Served(r, "AbortMultipartUpload")'
           /\ req'[r].bucket = b /\ req'[r].key = k /\ req'[r].upload_id = u
           /\ req'[r].creds
           /\ get_multipart(b, k, u) # {}) =>
             /\ result'[r] = "Ok"
             /\ get_multipart(b, k, u)' = {}
             /\ \A m \in get_multipart(b, k, u) :
                   OpenUpload(m.location, m.blob_id, u)' = {}
      ]_vars

-----------------------------------------------------------------------------
(***************************************************************************)
(* Listing                                                                 *)
(***************************************************************************)
\* the characters of an object key
KeyChars(key) == CASE key = "k1" -> <<"k", "1">>

StartsWith(s, p) == Len(p) <= Len(s) /\ SubSeq(s, 1, Len(p)) = p
AfterPrefix(s, p) == SubSeq(s, Len(p) + 1, Len(s))
HasDelimiter(s, d) == \E i \in 1..Len(s) : s[i] = d
\* the part of s up to and with the first delimiter
Group(s, d) ==
    LET first == CHOOSE i \in 1..Len(s) :
                    s[i] = d /\ \A j \in 1..(i - 1) : s[j] # d
    IN  SubSeq(s, 1, first)

\* the keys of a bucket that start with the prefix
Matching(bucket, prefix) ==
    {k \in {KeyChars(o.oid) : o \in Partition(bucket)} : StartsWith(k, prefix)}
ListedObjects(bucket, prefix, d) ==
    {k \in Matching(bucket, prefix) : ~HasDelimiter(AfterPrefix(k, prefix), d)}
ListedPrefixes(bucket, prefix, d) ==
    {prefix \o Group(AfterPrefix(k, prefix), d) :
        k \in {x \in Matching(bucket, prefix) :
                  HasDelimiter(AfterPrefix(x, prefix), d)}}

IsList(r) == req[r].op \in {"ListObjects", "ListObjectsV2"}

\* C30: a listing of a live bucket with a prefix and a delimiter succeeds
\* and returns as objects exactly the keys that start with the prefix and
\* hold no delimiter after it, and as common prefixes exactly the distinct
\* values prefix + group + delimiter of the other keys that start with the
\* prefix.
C30_ListObjects ==
    \A r \in Reqs :
        (IsList(r) /\ Returned(r) /\ req[r].creds
           /\ LiveRows(req[r].bucket) # {}) =>
            /\ result[r] = "Ok"
            /\ {"contents", "common_prefixes"} \subseteq DOMAIN response[r]
            /\ response[r].contents =
                  ListedObjects(req[r].bucket, req[r].prefix, req[r].delimiter)
            /\ response[r].common_prefixes =
                  ListedPrefixes(req[r].bucket, req[r].prefix, req[r].delimiter)

\* the order of the characters of keys
Alphabet == <<"/", "1", "k">>
CharRank(c) == CHOOSE i \in 1..Len(Alphabet) : Alphabet[i] = c

\* a sorts before b
Precedes(a, b) ==
    \E i \in 1..(Len(b)) :
        /\ \A j \in 1..(i - 1) : j <= Len(a) /\ a[j] = b[j]
        /\ \/ Len(a) = i - 1
           \/ Len(a) >= i /\ CharRank(a[i]) < CharRank(b[i])

\* the rows of a listing: the objects and the common prefixes that sort
\* after start_after
ListRows(r) ==
    {k \in ListedObjects(req[r].bucket, req[r].prefix, req[r].delimiter)
           \cup ListedPrefixes(req[r].bucket, req[r].prefix, req[r].delimiter) :
        Precedes(req[r].start_after, k)}

ListAnswered(r) ==
    /\ IsList(r) /\ Returned(r) /\ req[r].creds
    /\ LiveRows(req[r].bucket) # {}

\* C31: a list_objects page holds at most max_keys entries, objects and
\* common prefixes together, in ascending oid order; a continuation marker
\* is returned if and only if the page was filled, and it is the oid of the
\* last row of the page.
C31_Page ==
    \A r \in Reqs :
        ListAnswered(r) =>
            /\ result[r] = "Ok"
            /\ {"page", "marker"} \subseteq DOMAIN response[r]
            /\ LET page == response[r].page
                   marker == response[r].marker
               IN  /\ Len(page) <= req[r].max_keys
                   /\ \A i \in 1..Len(page), j \in 1..Len(page) :
                         i < j => Precedes(page[i], page[j])
                   /\ (marker # <<>>) <=> (Len(page) = req[r].max_keys)
                   /\ marker # <<>> => marker = page[Len(page)]

-----------------------------------------------------------------------------
(***************************************************************************)
(* PutObject without a content length                                      *)
(***************************************************************************)
\* a PutObject request without content length that passed the checks on the
\* storage class, the bucket and the credentials
NoLengthPut(r) ==
    /\ IsPut(r) /\ Returned(r)
    /\ ~req[r].has_len
    /\ result[r] \notin {"InvalidStorageClass", "NoSuchBucket", "AccessDenied",
                         "InternalError"}

\* C32: a PutObject that carries no content length returns IncompleteBody
\* and leaves no temp_blobs, blobs or objects row of the request.
C32_IncompleteBody ==
    \A r \in Reqs :
        NoLengthPut(r) =>
            /\ result[r] = "IncompleteBody"
            /\ new_blob[r] \notin Ids(temp_blobs)
            /\ new_blob[r] \notin Ids(blobs)
            /\ ~ \E o \in objects : o.blob = new_blob[r]

-----------------------------------------------------------------------------
(***************************************************************************)
(* Bucket lifecycle states                                                 *)
(***************************************************************************)
\* no CreateBucket request of the name is under way
NoCreatorOf(name) ==
    \A r \in Reqs : (IsCreateBucket(r) /\ req[r].bucket = name) => pc[r] = "done"

\* C33: a bucket name is in at most one lifecycle state: no name has a row
\* in buckets_temp and a row in buckets, whatever the interleaving of
\* CreateBucket requests, and once every CreateBucket request of a name has
\* returned or was cancelled no buckets_temp row of a live bucket is left.
C33_OneLifecycleState ==
    \A name \in AllBucketNames :
        /\ ~ (Reserved(name) # {} /\ LiveRows(name) # {})
        /\ (NoCreatorOf(name) /\ LiveRows(name) # {}) => Reserved(name) = {}

\* the rows that record a location for the GC worker
TrackedLocations ==
    {t.location : t \in buckets_temp} \cup {g.location : g \in buckets_gc}

\* C34: a CreateBucket that returns an error leaves no untracked backing
\* bucket: the backing bucket it created is gone again, or a buckets_temp or
\* buckets_gc row records its location.
C34_NoUntrackedBucket ==
    \A r \in Reqs :
        (/\ IsCreateBucket(r) /\ Returned(r) /\ result[r] # "Ok"
         /\ "blob.create_bucket" \in calls[r]
         /\ placement[r].backend \in backing_buckets) =>
            placement[r] \in TrackedLocations

-----------------------------------------------------------------------------
(***************************************************************************)
(* Objects and the GC queue                                                *)
(***************************************************************************)
\* the payload of a blob is in the backing store at the placement its blobs
\* row records
PayloadPresent(id) ==
    \E b \in blobs, x \in backing : b.id = id /\ x.key = id /\ x.loc = b.placement

\* no Object row references a queued blob or a blob without its payload
C35_Referenced ==
    \A o \in objects : o.blob \notin blobs_gc /\ PayloadPresent(o.blob)

\* a blob enters blobs_gc in the step that removes the Object rows that
\* reference it
C35_QueueStep ==
    \A id \in Uuids :
        (id \notin blobs_gc /\ id \in blobs_gc') =>
            /\ \E o \in objects : o.blob = id
            /\ ~ \E o \in objects' : o.blob = id

\* C35: in every reachable state no Object row references a blob whose id is
\* in blobs_gc or whose backing payload has been deleted; a blob is queued
\* only in the transaction that removes or replaces the last Object row
\* that references it, under any interleaving of PutObject, DeleteObject,
\* CompleteMultipartUpload and the GC worker.
C35_NoDanglingObject == []C35_Referenced /\ [][C35_QueueStep]_vars

\* the GC worker has deleted the payload of a queued blob while the key
\* holds an object
C35_Witness ==
    /\ objects # {}
    /\ \E id \in blobs_gc : ~Uploaded(id)

\* the location the backing calls of the multipart requests in flight target
\* and the location the MultipartUpload row of the upload records
MultipartTargets(r) ==
    IF pc[r] \in {"up_upstream"} THEN {upload[r].location}
    ELSE IF pc[r] \in {"cmp_upstream"} THEN {placement[r]}
    ELSE {}

PageEntries(page) == {page[i] : i \in 1..Len(page)}

\* C37: paging is complete and duplicate-free and terminates: a list_objects
\* call on a live bucket returns no row twice, returns only rows that sort
\* after start_after, leaves out only rows that sort after its continuation
\* marker, and its marker sorts after start_after, so that the calls that
\* follow the markers return every object key and every common prefix once
\* and reach a page without a marker.
C37_Paging ==
    \A r \in Reqs :
        ListAnswered(r) =>
            /\ result[r] = "Ok"
            /\ {"page", "marker"} \subseteq DOMAIN response[r]
            /\ LET page == response[r].page
                   marker == response[r].marker
               IN  /\ \A i \in 1..Len(page), j \in 1..Len(page) :
                         i # j => page[i] # page[j]
                   /\ PageEntries(page) \subseteq ListRows(r)
                   /\ \A k \in ListRows(r) \ PageEntries(page) :
                         marker # <<>> /\ Precedes(marker, k)
                   /\ marker # <<>> => Precedes(req[r].start_after, marker)

\* the payloads the writers write: the body of a PutObject, the one part of
\* a multipart upload
WrittenPayloads ==
    {i.body : i \in PutInputsGc} \cup {i.body : i \in UploadPartInputsGc}

TrackedUpload(id) ==
    \/ \E m \in multiparts : m.blob_id = id
    \/ \E b \in blobs : b.id = id
    \/ id \in blobs_gc

\* the blob ids a CreateMultipartUpload in flight has opened an upload for
\* and is about to record
BeingRecorded == {new_blob[r] : r \in {q \in Reqs : pc[q] = "cmu_db"}}

\* C39: every multipart upload opened on the backing store is tracked: the
\* blob id of each open or completed backing upload appears in
\* active_multipart_uploads, blobs or blobs_gc, also after create_multipart
\* failed or the request was cancelled once the backing store had opened the
\* upload, and after complete_multipart failed once the backing store had
\* completed it.
C39_UploadsTracked ==
    /\ \A u \in backing_mp : u.key \notin BeingRecorded => TrackedUpload(u.key)
    /\ \A x \in backing : TrackedUpload(x.key)

=============================================================================
